---- MODULE Spec2Model ----
(***************************************************************************)
(* A model of the console file explorer: the path utilities of utils.py,   *)
(* the movement functions of navigation.py and the read-eval-print loop of *)
(* main.py.                                                                *)
(*                                                                         *)
(* A Python str is a sequence of one-character strings, so that slicing,   *)
(* searching, stripping and case folding are computed, not assumed.  A     *)
(* message of the catalog (ru_local) is the one-element sequence holding   *)
(* its symbolic key; format arguments that matter are appended.            *)
(***************************************************************************)
EXTENDS Integers, Sequences, FiniteSets, TLC

\* ------------------------------------------------------------------ bounds
\* Longest path enumerated exhaustively over PathChars.
MaxLen == 3

\* ------------------------------------------------------- program constants
\* utils.py:57, the length limit of validate_windows_path.
MAX_PATH == 260
\* utils.py:146, the depth ceiling of validate_windows_path_recursive.
MAX_RECURSION_DEPTH == 100

\* ----------------------------------------------------------------- strings
Sep == "\\"
AltSep == "/"
Seps == {Sep, AltSep}
Colon == ":"

UpperSeq == <<"A","B","C","D","E","F","G","H","I","J","K","L","M",
              "N","O","P","Q","R","S","T","U","V","W","X","Y","Z">>
LowerSeq == <<"a","b","c","d","e","f","g","h","i","j","k","l","m",
              "n","o","p","q","r","s","t","u","v","w","x","y","z">>
DigitSeq == <<"0","1","2","3","4","5","6","7","8","9">>
Whitespace == {" ", "\t"}

Range(s) == {s[i] : i \in 1..Len(s)}
UpperSet == Range(UpperSeq)
LowerSet == Range(LowerSeq)
ToLower == [c \in UpperSet |-> LowerSeq[CHOOSE i \in 1..26 : UpperSeq[i] = c]]
ToUpper == [c \in LowerSet |-> UpperSeq[CHOOSE i \in 1..26 : LowerSeq[i] = c]]

\* str.isalpha() of one character
IsAlpha(c) == c \in UpperSet \/ c \in LowerSet

\* str.lower() / str.upper() of one character
LowerChar(c) == IF c \in UpperSet THEN ToLower[c] ELSE c
UpperChar(c) == IF c \in LowerSet THEN ToUpper[c] ELSE c
Lower(s) ==
    CHOOSE r \in { SubSeq([i \in 1..Len(v) |-> LowerChar(v[i])], 1, Len(v)) :
                     v \in {s} } : TRUE
Upper(s) ==
    CHOOSE r \in { SubSeq([i \in 1..Len(v) |-> UpperChar(v[i])], 1, Len(v)) :
                     v \in {s} } : TRUE

\* s[:k] and s[k:] with Python's 0-based k, 0 <= k
Take(s, k) == SubSeq(s, 1, IF k < Len(s) THEN k ELSE Len(s))
Drop(s, k) == SubSeq(s, k + 1, Len(s))

\* s.find(c, start): the 0-based index of the first c at or after start, or -1
Find(s, c, start) ==
    IF \E i \in (start + 1)..Len(s) : s[i] = c
    THEN (CHOOSE i \in (start + 1)..Len(s) :
            s[i] = c /\ \A j \in (start + 1)..(i - 1) : s[j] # c) - 1
    ELSE -1

\* s.count(c)
Count(s, c) == Cardinality({i \in 1..Len(s) : s[i] = c})

\* s.startswith(t), s.endswith(t)
StartsWith(s, t) == Len(t) <= Len(s) /\ SubSeq(s, 1, Len(t)) = t
EndsWith(s, t) == Len(t) <= Len(s) /\ SubSeq(s, Len(s) - Len(t) + 1, Len(s)) = t

\* s.rstrip(chars), s.lstrip(chars), s.strip()
RStrip(s, chars) ==
    SubSeq(s, 1, CHOOSE i \in 0..Len(s) :
                    /\ i = 0 \/ s[i] \notin chars
                    /\ \A j \in (i + 1)..Len(s) : s[j] \in chars)
LStrip(s, chars) ==
    SubSeq(s, CHOOSE i \in 1..(Len(s) + 1) :
                    /\ i = Len(s) + 1 \/ s[i] \notin chars
                    /\ \A j \in 1..(i - 1) : s[j] \in chars,
           Len(s))
Strip(s) == LStrip(RStrip(s, Whitespace), Whitespace)

\* s.replace('/', '\\')
ReplaceAlt(s) ==
    CHOOSE r \in { SubSeq([i \in 1..Len(v) |-> IF v[i] = AltSep THEN Sep ELSE v[i]],
                          1, Len(v)) : v \in {s} } : TRUE

\* str.isdigit() and int(str) on decimal digits
IsDigit(s) == Len(s) > 0 /\ \A i \in 1..Len(s) : s[i] \in Range(DigitSeq)
DigitValue(c) == (CHOOSE i \in 1..10 : DigitSeq[i] = c) - 1
RECURSIVE ToInt(_)
ToInt(s) ==
    IF Len(s) = 0 THEN 0
    ELSE 10 * ToInt(SubSeq(s, 1, Len(s) - 1)) + DigitValue(s[Len(s)])

\* n copies of s
Repeat(s, n) ==
    IF n <= 0 \/ Len(s) = 0 THEN <<>>
    ELSE LET f == [i \in 1..(n * Len(s)) |-> s[((i - 1) % Len(s)) + 1]]
         IN  SubSeq(f, 1, n * Len(s))

\* ------------------------------------------------------ os.path (ntpath)
\* The one element of a singleton.  A local value that is used more than once is
\* bound by ranging over the singleton of its expression.
The(S) == CHOOSE v \in S : TRUE

UncPrefix == <<Sep, Sep, "?", Sep, "U", "N", "C", Sep>>

\* ntpath.splitdrive, the branch of a path that starts with two separators
SplitUnc(p) ==
    The({ The({ The({ IF index = -1 \/ index2 = -1
                      THEN <<p, <<>>>>
                      ELSE <<Take(p, index2), Drop(p, index2)>> :
                index2 \in {IF index = -1 THEN -1 ELSE Find(normp, Sep, index + 1)} }) :
            index \in {Find(normp, Sep,
                            IF Upper(Take(normp, 8)) = UncPrefix THEN 8 ELSE 2)} }) :
        normp \in {ReplaceAlt(p)} })

\* ntpath.splitdrive: <<drive, rest>>
SplitDrive(p) ==
    IF Len(p) >= 2
    THEN IF ReplaceAlt(Take(p, 2)) = <<Sep, Sep>>
         THEN SplitUnc(p)
         ELSE IF p[2] = Colon
              THEN <<Take(p, 2), Drop(p, 2)>>
              ELSE <<<<>>, p>>
    ELSE <<<<>>, p>>

\* ntpath.split of drive d and rest r: <<head, tail>>
SplitRest(d, r) ==
    The({ The({ <<d \o (IF strp # <<>> THEN strp ELSE Take(r, i)), Drop(r, i)>> :
                strp \in {RStrip(Take(r, i), Seps)} }) :
        i \in {CHOOSE k \in 0..Len(r) :
                /\ k = 0 \/ r[k] \in Seps
                /\ \A j \in (k + 1)..Len(r) : r[j] \notin Seps} })

\* ntpath.split: <<head, tail>>
Split(p) == The({ SplitRest(sd[1], sd[2]) : sd \in {SplitDrive(p)} })

\* os.path.dirname, os.path.basename
Dirname(p) == Split(p)[1]
Basename(p) == Split(p)[2]

\* os.path.join of the split paths <<rd, rp>> and <<pd, pp>>
JoinSplit(rd, rp, pd, pp) ==
    The({ IF jn[2] # <<>> /\ jn[2][1] \notin Seps
             /\ jn[1] # <<>> /\ jn[1][Len(jn[1])] # Colon
          THEN jn[1] \o <<Sep>> \o jn[2]
          ELSE jn[1] \o jn[2] :
        jn \in { IF pp # <<>> /\ pp[1] \in Seps
                 THEN <<IF pd # <<>> \/ rd = <<>> THEN pd ELSE rd, pp>>
                 ELSE IF pd # <<>> /\ pd # rd /\ Lower(pd) # Lower(rd)
                 THEN <<pd, pp>>
                 ELSE <<IF pd # <<>> /\ pd # rd THEN pd ELSE rd,
                        (IF rp # <<>> /\ rp[Len(rp)] \notin Seps
                         THEN rp \o <<Sep>> ELSE rp) \o pp>> } })

\* os.path.join(path, p) for two arguments
Join(path, p) ==
    The({ JoinSplit(a[1], a[2], b[1], b[2]) :
            a \in {SplitDrive(path)}, b \in {SplitDrive(p)} })

\* ------------------------------------------------------------- the host
\* platform.system() of the machine the program runs on
Hosts == {"Windows", "Linux"}

\* utils.is_windows_os
is_windows_os(h) == h = "Windows"

\* ------------------------------------------------------------------ state
VARIABLES
    host,          \* platform.system()
    cwd,           \* os.getcwd(): the working directory of the process
    fs,            \* the file system the process sees (never written by it)
    fn,            \* library call: the function applied ("none" before the call)
    arg,           \* library call: its path argument
    arg2,          \* library call: its second argument (the target of move_down)
    res,           \* library call: what it returned
    pc,            \* main(): the statement the process is at
    current_path,  \* main(): the session's current path
    command,       \* main(): the trimmed command of this iteration
    confirm,       \* main(): the answer given at the exit confirmation
    offered,       \* handle_windows_navigation: the list a choice is made from
    out,           \* the catalog messages printed by the last step
    exit_status,   \* <<>> while the process runs, <<status>> once it has exited
    at,            \* history: the statement the last step started from
    event,         \* history: what the last step was
    iter_path,     \* history: current_path when this iteration's menu was shown
    scenario,      \* history: progress of the session along commands 1, 5, 0
    vr_pc,         \* validate_windows_path_recursive: call, return or done
    vr_path,       \* ... the path of the innermost frame
    vr_depth,      \* ... the depth of the innermost frame
    vr_stack,      \* ... the problems of the frames waiting for their parent
    vr_ret,        \* ... the value the innermost finished frame returned
    tv_kind,       \* a traversal: the function that runs it ("none" without one)
    tv_pc,         \* ... running or done
    tv_stack,      \* ... its frames, the innermost last
    tv_out,        \* ... what it has yielded or recorded so far
    tv_seen        \* ... the paths a walk has marked as visited

envVars == <<host, cwd, fs>>
libVars == <<fn, arg, arg2, res>>
mainVars == <<pc, current_path, command, confirm, offered, out, exit_status>>
histVars == <<at, event, iter_path, scenario>>
chainVars == <<vr_pc, vr_path, vr_depth, vr_stack, vr_ret>>
walkVars == <<tv_kind, tv_pc, tv_stack, tv_out, tv_seen>>
vars == <<envVars, libVars, mainVars, histVars, chainVars, walkVars>>

\* ------------------------------------------------------ path validation
ForbiddenChars == <<"/", "*", "?", "\"", "<", ">", "|">>

\* A length test that also refuses a path of exactly the limit.
path_too_long_at_limit(path_str) == Len(path_str) >= MAX_PATH

\* utils.validate_windows_path, the length rule
path_too_long(path_str) == Len(path_str) > MAX_PATH

\* utils.validate_windows_path on the characters chars of path_str
validate_chars(path_str, chars) ==
    IF Colon \in chars /\ Count(path_str, Colon) > 1
    THEN <<FALSE, <<"TOO_MANY_COLONS">>>>
    ELSE IF Colon \in chars /\ Find(path_str, Colon, 0) # 1
    THEN <<FALSE, <<"COLON_POSITION">>>>
    ELSE IF Colon \in chars /\ ~IsAlpha(path_str[1])
    THEN <<FALSE, <<"INVALID_DRIVE">>>>
    ELSE IF Colon \in chars /\ Len(path_str) > 2 /\ path_str[3] # Sep
    THEN <<FALSE, <<"MISSING_BACKSLASH">>>>
    ELSE IF \E k \in 1..Len(ForbiddenChars) : ForbiddenChars[k] \in chars
    THEN <<FALSE, <<"FORBIDDEN_CHAR",
                    ForbiddenChars[CHOOSE a \in 1..Len(ForbiddenChars) :
                        /\ ForbiddenChars[a] \in chars
                        /\ \A b \in 1..(a - 1) : ForbiddenChars[b] \notin chars]>>>>
    ELSE IF path_too_long(path_str)
    THEN <<FALSE, <<"PATH_TOO_LONG">>>>
    ELSE <<TRUE, <<>>>>

\* utils.validate_windows_path: <<valid, error message>>
validate_windows_path(h, path_str) ==
    IF ~is_windows_os(h) THEN <<FALSE, <<"ONLY_WINDOWS">>>>
    ELSE The({ validate_chars(path_str, chars) : chars \in {Range(path_str)} })

\* utils.get_parent_path
get_parent_path(path_str) ==
    The({ IF parent = path_str THEN path_str ELSE parent :
            parent \in {Dirname(path_str)} })

\* ------------------------------------------------------- the file system
\* Names of the modelled directory tree.
NUsers == <<"U","s","e","r","s">>
NTest == <<"t","e","s","t">>
NDocuments == <<"D","o","c","u","m","e","n","t","s">>
NWindows == <<"W","i","n","d","o","w","s">>
NTemp == <<"T","e","m","p">>
NFile == <<"a",".","t","x","t">>
NLocked == <<"p",".","s","y","s">>

DriveC == <<"C", Colon>>
RootC == <<"C", Colon, Sep>>
RootD == <<"D", Colon, Sep>>
DirUsers == RootC \o NUsers
DirTest == DirUsers \o <<Sep>> \o NTest
DirDocuments == DirTest \o <<Sep>> \o NDocuments
DirWindows == RootC \o NWindows
DirTemp == RootC \o NTemp
DirA == RootC \o <<"a">>
\* A directory two characters short of the limit: its child "b" is the longest
\* valid path, its child "bb" the shortest over-long one.
LongName == Repeat(<<"a">>, MAX_PATH - 5)
LongDir == RootC \o LongName
LongChild == LongDir \o <<Sep, "b">>
OverLongDir == LongDir \o <<Sep, "b", "b">>

\* The directory entries in the order os.listdir returns them.  stat_ok is FALSE
\* for an entry whose os.stat raises (a locked system file).
FsEntries ==
    << [parent |-> RootC,       name |-> NUsers,      kind |-> "dir",  stat_ok |-> TRUE],
       [parent |-> RootC,       name |-> NWindows,    kind |-> "dir",  stat_ok |-> TRUE],
       [parent |-> RootC,       name |-> <<"a">>,     kind |-> "dir",  stat_ok |-> TRUE],
       [parent |-> RootC,       name |-> NLocked,     kind |-> "file", stat_ok |-> FALSE],
       [parent |-> RootC,       name |-> NTemp,       kind |-> "dir",  stat_ok |-> TRUE],
       [parent |-> RootC,       name |-> LongName,    kind |-> "dir",  stat_ok |-> TRUE],
       [parent |-> DirUsers,    name |-> NTest,       kind |-> "dir",  stat_ok |-> TRUE],
       [parent |-> DirTest,     name |-> NFile,       kind |-> "file", stat_ok |-> TRUE],
       [parent |-> DirTest,     name |-> NDocuments,  kind |-> "dir",  stat_ok |-> TRUE],
       [parent |-> DirA,        name |-> <<"a">>,     kind |-> "dir",  stat_ok |-> TRUE],
       [parent |-> DirA,        name |-> <<"1">>,     kind |-> "file", stat_ok |-> TRUE],
       [parent |-> LongDir,     name |-> <<"b">>,     kind |-> "dir",  stat_ok |-> TRUE],
       [parent |-> LongDir,     name |-> <<"b","b">>, kind |-> "dir",  stat_ok |-> TRUE],
       [parent |-> OverLongDir, name |-> NFile,       kind |-> "file", stat_ok |-> TRUE] >>
FsRoots == {RootC, RootD}

\* The subsequence of s at the indices lo..hi that are in keep, in order
RECURSIVE PickRange(_, _, _, _)
PickRange(s, keep, lo, hi) ==
    IF lo > hi THEN <<>>
    ELSE IF lo = hi THEN (IF lo \in keep THEN <<s[lo]>> ELSE <<>>)
    ELSE PickRange(s, keep, lo, (lo + hi) \div 2)
         \o PickRange(s, keep, ((lo + hi) \div 2) + 1, hi)
Pick(s, keep) ==
    CHOOSE r \in { PickRange(sv, kv, 1, Len(sv)) : sv \in {s}, kv \in {keep} } : TRUE

\* r without leading, trailing and repeated separators
Collapse(r) ==
    IF \A i \in 1..Len(r) : r[i] = Sep => (1 < i /\ i < Len(r) /\ r[i + 1] # Sep)
    THEN r
    ELSE Pick(r, {i \in 1..Len(r) :
                    \/ r[i] # Sep
                    \/ /\ i > 1 /\ r[i - 1] # Sep
                       /\ \E j \in (i + 1)..Len(r) : r[j] # Sep})

\* The absolute path of the normalised path n = drv + rest for working directory d
Absolute(d, n, drv, rest) ==
    IF drv = <<>>
    THEN IF rest # <<>> /\ rest[1] = Sep THEN SplitDrive(d)[1] \o rest ELSE Join(d, n)
    ELSE IF rest # <<>> /\ rest[1] = Sep THEN n
    ELSE IF Lower(drv) = Lower(SplitDrive(d)[1]) THEN Join(d, rest)
    ELSE drv \o <<Sep>> \o rest

\* How the host resolves a path to the object it names: relative to the working
\* directory d, either separator, repeated separators collapsed, case ignored.
FsKey(d, p) ==
    The({ The({ Lower(f[1] \o <<Sep>> \o Collapse(f[2])) :
                f \in { The({ SplitDrive(Absolute(d, n, sd[1], sd[2])) :
                                sd \in {SplitDrive(n)} }) } }) :
        n \in {ReplaceAlt(p)} })

\* The image of the tree: the keys of its directories and files, and for each
\* directory its entries in listing order.
EntryPath(e) == Join(e.parent, e.name)
FsIndex(kind) == {j \in 1..Len(FsEntries) : FsEntries[j].kind = kind}
FsImage ==
    The({ [dirs  |-> dirs,
           files |-> {Lower(EntryPath(FsEntries[i])) : i \in FsIndex("file")},
           list  |-> [k \in dirs |->
                        Pick(FsEntries, {i \in 1..Len(FsEntries) :
                                            Lower(FsEntries[i].parent) = k})]] :
        dirs \in { {Lower(r) : r \in FsRoots}
                   \cup {Lower(EntryPath(FsEntries[i])) : i \in FsIndex("dir")} } })

\* os.path.isdir, os.path.isfile, os.path.exists with working directory d
IsDir(d, p) == p # <<>> /\ FsKey(d, p) \in fs.dirs
IsFile(d, p) == p # <<>> /\ FsKey(d, p) \in fs.files
Exists(d, p) == p # <<>> /\ \E k \in {FsKey(d, p)} : k \in fs.dirs \/ k \in fs.files

\* The entries of directory path in listing order, [] when path is no directory
FsChildren(d, path) ==
    The({ IF path # <<>> /\ k \in fs.dirs THEN fs.list[k] ELSE <<>> :
            k \in {FsKey(d, path)} })

\* utils.safe_windows_listdir: the names, or [] when the listing fails
safe_windows_listdir(d, path) ==
    The({ [i \in 1..Len(es) |-> es[i].name] : es \in {FsChildren(d, path)} })

\* ------------------------------------------------------------- navigation
\* navigation.list_available_drives
DriveLetters == [i \in 1..26 |-> <<UpperSeq[i], Colon>>]
list_available_drives(d) ==
    Pick(DriveLetters, {i \in 1..26 : Exists(d, DriveLetters[i] \o <<Sep>>)})

\* navigation.list_directory, the items of the entries es of path: a name and a
\* type each, without the entries whose os.stat raises
list_items(d, path, es) ==
    The({ [i \in 1..Len(shown) |->
             [name |-> shown[i].name,
              type |-> IF IsFile(d, Join(path, shown[i].name))
                       THEN "file" ELSE "folder"]] :
        shown \in {The({ Pick(ev, {i \in 1..Len(ev) : ev[i].stat_ok}) :
                           ev \in {es} })} })

\* navigation.list_directory: <<success, items>>
list_directory(h, d, path) ==
    IF ~validate_windows_path(h, path)[1] THEN <<FALSE, <<>>>>
    ELSE <<TRUE, list_items(d, path, FsChildren(d, path))>>

\* A move_up that takes the parent without validating it.
move_up_unvalidated(h, cur_path) == get_parent_path(cur_path)

\* navigation.move_up
move_up(h, cur_path) ==
    The({ IF validate_windows_path(h, parent_path)[1] THEN parent_path ELSE cur_path :
            parent_path \in {get_parent_path(cur_path)} })

\* A move_down that does not validate the joined path.
move_down_unvalidated(h, d, cur_path, target_dir) ==
    The({ IF target_dir \notin Range(safe_windows_listdir(d, cur_path))
          THEN <<FALSE, cur_path>>
          ELSE IF ~IsDir(d, new_path) THEN <<FALSE, cur_path>>
          ELSE <<TRUE, new_path>> :
        new_path \in {Join(cur_path, target_dir)} })

\* navigation.move_down: <<success, path>>
move_down(h, d, cur_path, target_dir) ==
    The({ IF target_dir \notin Range(safe_windows_listdir(d, cur_path))
          THEN <<FALSE, cur_path>>
          ELSE IF ~IsDir(d, new_path) THEN <<FALSE, cur_path>>
          ELSE IF ~validate_windows_path(h, new_path)[1] THEN <<FALSE, cur_path>>
          ELSE <<TRUE, new_path>> :
        new_path \in {Join(cur_path, target_dir)} })

\* The environment of the process: USERPROFILE, SystemDrive and SystemRoot are
\* set, TEMP is not.
USERPROFILE == DirTest
SystemDrive == DriveC
SystemRoot == DirWindows

\* navigation.get_windows_special_folders: the <<name, path>> pairs in the order
\* of the dictionary
UserFolders ==
    << <<"Desktop",        <<"D","e","s","k","t","o","p">> >>,
       <<"Documents",      NDocuments>>,
       <<"Downloads",      <<"D","o","w","n","l","o","a","d","s">> >>,
       <<"Music",          <<"M","u","s","i","c">> >>,
       <<"Pictures",       <<"P","i","c","t","u","r","e","s">> >>,
       <<"Videos",         <<"V","i","d","e","o","s">> >>,
       <<"AppData",        <<"A","p","p","D","a","t","a">> >>,
       <<"LocalAppData",   Join(<<"A","p","p","D","a","t","a">>, <<"L","o","c","a","l">>)>>,
       <<"RoamingAppData", Join(<<"A","p","p","D","a","t","a">>,
                                <<"R","o","a","m","i","n","g">>)>> >>
SystemFolders ==
    << <<"ProgramFiles", Join(SystemDrive, <<"P","r","o","g","r","a","m"," ",
                                             "F","i","l","e","s">>)>>,
       <<"Windows",      SystemRoot>>,
       <<"System32",     Join(SystemRoot, <<"S","y","s","t","e","m","3","2">>)>>,
       <<"Temp",         Join(SystemDrive, NTemp)>> >>
UserFolderPaths ==
    [i \in 1..Len(UserFolders) |->
        <<UserFolders[i][1], Join(USERPROFILE, UserFolders[i][2])>>]
get_windows_special_folders(d) ==
    Pick(UserFolderPaths,
         {i \in 1..Len(UserFolderPaths) : Exists(d, UserFolderPaths[i][2])})
    \o Pick(SystemFolders,
            {i \in 1..Len(SystemFolders) : Exists(d, SystemFolders[i][2])})

\* ------------------------------------------------------- initial values
\* The parts of the state a specification does not use keep these values.
LibIdle == fn = "none" /\ arg = <<>> /\ arg2 = <<>> /\ res = <<>>
MainIdle ==
    /\ pc = "idle" /\ current_path = <<>> /\ command = <<>> /\ confirm = <<>>
    /\ offered = <<>> /\ out = <<>> /\ exit_status = <<>>
    /\ at = "idle" /\ event = "none" /\ iter_path = <<>> /\ scenario = <<>>
ChainIdle ==
    /\ vr_pc = "idle" /\ vr_path = <<>> /\ vr_depth = 0
    /\ vr_stack = <<>> /\ vr_ret = <<>>
WalkIdle ==
    /\ tv_kind = "none" /\ tv_pc = "idle" /\ tv_stack = <<>> /\ tv_out = <<>>
    /\ tv_seen = {}

\* ------------------------------------------------- the library functions
\* The inputs: every string of at most MaxLen characters over PathChars, the
\* paths of the modelled tree in several spellings, and paths at the length
\* limit.
PathChars == {"C", "1", Colon, Sep, AltSep, "*", "a"}
GenPaths == UNION {[1..n -> PathChars] : n \in 0..MaxLen}
FsPaths ==
    FsRoots \cup {EntryPath(FsEntries[i]) : i \in 1..Len(FsEntries)}
    \cup {DirTest \o <<Sep>>, Lower(DirTest), DriveC,
          <<"C", Colon, AltSep>> \o NUsers \o <<AltSep>> \o NTest}
LongPaths ==
    {RootC \o Repeat(<<"a">>, MAX_PATH - 3),
     RootC \o Repeat(<<"a">>, MAX_PATH - 2),
     RootC \o Repeat(<<"*">>, MAX_PATH - 2),
     DriveC \o Repeat(<<"a">>, MAX_PATH - 1),
     Repeat(<<"a">>, MAX_PATH), Repeat(<<"a">>, MAX_PATH + 1)}
PathInputs == GenPaths \cup FsPaths \cup LongPaths
TargetNames ==
    {<<"a">>, <<"1">>, <<"b">>, <<"b", "b">>, NDocuments, Lower(NDocuments), NFile,
     NTest, <<"x">>}

InitLib ==
    /\ fs = FsImage
    /\ host \in Hosts
    /\ cwd = RootC
    /\ fn = "none"
    /\ arg \in PathInputs
    /\ arg2 = <<>>
    /\ res = <<>>
    /\ MainIdle
    /\ ChainIdle
    /\ WalkIdle

\* a call of utils.validate_windows_path(arg)
CallValidate ==
    /\ fn = "none"
    /\ fn' = "validate_windows_path"
    /\ res' = validate_windows_path(host, arg)
    /\ UNCHANGED <<walkVars, envVars, arg, arg2, mainVars, histVars, chainVars>>

\* a call of navigation.move_up(arg)
CallMoveUp ==
    /\ fn = "none"
    /\ fn' = "move_up"
    /\ res' = move_up(host, arg)
    /\ UNCHANGED <<walkVars, envVars, arg, arg2, mainVars, histVars, chainVars>>

\* a call of navigation.move_down(arg, target)
CallMoveDown ==
    /\ fn = "none"
    /\ \E target \in TargetNames :
        /\ arg2' = target
        /\ res' = move_down(host, cwd, arg, target)
    /\ fn' = "move_down"
    /\ UNCHANGED <<walkVars, envVars, arg, mainVars, histVars, chainVars>>

NextLib == CallValidate \/ CallMoveUp \/ CallMoveDown

SpecLib == InitLib /\ [][NextLib]_vars

\* ------------------------------------------------------------------ C9
\* The rules of the path syntax contract, each as the paths violating it.
TooManyColons(p) == Count(p, Colon) > 1
ColonMisplaced(p) == \E i \in 1..Len(p) : p[i] = Colon /\ i # 2
BadDriveLetter(p) == Count(p, Colon) > 0 /\ ~IsAlpha(p[1])
NoSepAfterDrive(p) == Count(p, Colon) > 0 /\ Len(p) > 2 /\ p[3] # Sep
HasForbidden(p) == Range(p) \cap {"/", "*", "?", "\"", "<", ">", "|"} # {}
TooLong(p) == Len(p) > 260
FirstViolated(p) ==
    IF TooManyColons(p) THEN "TOO_MANY_COLONS"
    ELSE IF ColonMisplaced(p) THEN "COLON_POSITION"
    ELSE IF BadDriveLetter(p) THEN "INVALID_DRIVE"
    ELSE IF NoSepAfterDrive(p) THEN "MISSING_BACKSLASH"
    ELSE IF HasForbidden(p) THEN "FORBIDDEN_CHAR"
    ELSE IF TooLong(p) THEN "PATH_TOO_LONG"
    ELSE "none"
SyntaxAccepted(p) ==
    /\ \/ Count(p, Colon) = 0
       \/ /\ Count(p, Colon) = 1
          /\ Len(p) >= 2 /\ p[2] = Colon
          /\ IsAlpha(p[1])
          /\ Len(p) > 2 => p[3] = Sep
    /\ ~HasForbidden(p)
    /\ Len(p) <= 260

\* C9: on the supported host validatePathSyntax accepts exactly the paths of the
\* syntax contract and otherwise reports the first violated rule in the order too
\* many colons, colon position, drive letter, separator after drive, forbidden
\* character, length; on any other host it rejects every path as unsupported.
C9_ValidateContract ==
    fn = "validate_windows_path" =>
        IF host = "Windows"
        THEN /\ res[1] = SyntaxAccepted(arg)
             /\ res[1] => res[2] = <<>>
             /\ ~res[1] => res[2][1] = FirstViolated(arg)
        ELSE res = <<FALSE, <<"ONLY_WINDOWS">>>>

\* A drive path with a second colon is rejected for its colon count although it
\* also breaks later rules.
C9_Witness ==
    /\ fn = "validate_windows_path" /\ host = "Windows"
    /\ arg = <<"1", Colon, Colon>>
    /\ res = <<FALSE, <<"TOO_MANY_COLONS">>>>

\* ------------------------------------------------------------------ C8
InListing(d, path, name) ==
    /\ IsDir(d, path)
    /\ \E i \in 1..Len(FsEntries) :
         FsEntries[i].name = name /\ FsKey(d, FsEntries[i].parent) = FsKey(d, path)

\* C8: moveDown succeeds with the joined path exactly when the target is in the
\* listing, the joined path is a directory and it passes syntax validation; in
\* every other case it fails and returns the input path.
C8_MoveDownContract ==
    fn = "move_down" =>
        LET joined == Join(arg, arg2)
            ok == /\ InListing(cwd, arg, arg2)
                  /\ IsDir(cwd, joined)
                  /\ validate_windows_path(host, joined)[1]
        IN  /\ ok => res = <<TRUE, joined>>
            /\ ~ok => res = <<FALSE, arg>>

\* A listed directory whose joined path is one character over the limit is
\* refused and the input path comes back.
C8_Witness ==
    /\ fn = "move_down" /\ host = "Windows"
    /\ arg = LongDir /\ arg2 = <<"b", "b">>
    /\ InListing(cwd, arg, arg2) /\ IsDir(cwd, Join(arg, arg2))
    /\ res = <<FALSE, LongDir>>

\* ============================================================== main.py
\* The words that leave the loop, the command that shows the help, the commands
\* handle_windows_navigation serves.
ExitWords == {<<"e","x","i","t">>, <<"q","u","i","t">>, <<"q">>}
Help == <<"h","e","l","p">>
NavCommands == {<<"5">>, <<"6">>, <<"7">>, <<"8">>}

\* The statements of the loop body, inside the inner try of main()
LoopPcs == {"menu", "read", "dispatch", "choice", "ack"}
\* The statements outside the inner try at which the process waits or prints
OuterPcs == {"fail_prompt", "banner", "confirm", "outer_prompt"}

\* What a handler hands back: it returned path, or it called sys.exit, or it
\* stopped at an input() of its own with a list on offer.
Returned(path, msgs) ==
    [kind |-> "return", path |-> path, out |-> msgs, offered |-> <<>>]
Exited(path, msgs) ==
    [kind |-> "exit", path |-> path, out |-> msgs, offered |-> <<>>]
Prompted(path, msgs, list) ==
    [kind |-> "prompt", path |-> path, out |-> msgs, offered |-> list]

\* The names of the items of type folder
folders_of(items) ==
    The({ [i \in 1..Len(fl) |-> fl[i].name] :
            fl \in {Pick(items, {i \in 1..Len(items) : items[i].type = "folder"})} })

\* handle_windows_navigation before any input(): command 5 moves up, the others
\* print the list the choice is made from
handle_windows_navigation(h, d, cmd, cur_path) ==
    IF cmd = <<"5">>
    THEN The({ IF new_path # cur_path
               THEN Returned(new_path, <<"MOVED_TO">>)
               ELSE Returned(cur_path, <<"ALREADY_ROOT">>) :
             new_path \in {move_up(h, cur_path)} })
    ELSE IF cmd = <<"6">>
    THEN The({ IF ~listing[1] THEN Returned(cur_path, <<"FAILED_LIST_DIR">>)
               ELSE The({ IF folders = <<>>
                          THEN Returned(cur_path, <<"NO_SUBDIRS">>)
                          ELSE Prompted(cur_path, <<"AVAILABLE_SUBDIRS">>, folders) :
                        folders \in {folders_of(listing[2])} }) :
             listing \in {list_directory(h, d, cur_path)} })
    ELSE IF cmd = <<"8">>
    THEN Prompted(cur_path, <<"AVAILABLE_DRIVES">>, list_available_drives(d))
    ELSE IF cmd = <<"7">>
    THEN The({ IF special = <<>>
               THEN Returned(cur_path, <<"NO_SPECIAL_FOLDERS">>)
               ELSE Prompted(cur_path, <<"WINDOWS_SPECIAL_FOLDERS">>,
                             [i \in 1..Len(special) |-> special[i][2]]) :
             special \in {get_windows_special_folders(d)} })
    ELSE Returned(cur_path, <<>>)

\* int(choice) - 1 of a choice made of digits
choice_index(choice) == ToInt(choice) - 1

\* handle_windows_navigation, command 6 after its input()
choose_subdir(h, d, cur_path, folders, choice) ==
    IF choice = <<>> THEN Returned(cur_path, <<>>)
    ELSE IF IsDigit(choice) /\ ~(0 <= choice_index(choice)
                                 /\ choice_index(choice) < Len(folders))
    THEN Returned(cur_path, <<"INVALID_NUMBER">>)
    ELSE The({ IF moved[1]
               THEN Returned(moved[2], <<"MOVED_TO">>)
               ELSE Returned(cur_path, <<"FAILED_MOVE">>) :
             moved \in {move_down(h, d, cur_path,
                                  IF IsDigit(choice)
                                  THEN folders[choice_index(choice) + 1]
                                  ELSE choice)} })

\* handle_windows_navigation, command 8: the drive a choice names
selected_drive(drives, choice) ==
    IF IsDigit(choice) THEN drives[choice_index(choice) + 1]
    ELSE IF EndsWith(Upper(choice), <<Colon>>) THEN Upper(choice)
    ELSE Upper(choice) \o <<Colon>>

\* handle_windows_navigation, command 8 after its input()
choose_drive(h, d, cur_path, drives, choice) ==
    IF choice = <<>> THEN Returned(cur_path, <<>>)
    ELSE IF IsDigit(choice) /\ ~(0 <= choice_index(choice)
                                 /\ choice_index(choice) < Len(drives))
    THEN Returned(cur_path, <<"INVALID_NUMBER">>)
    ELSE The({ IF selected \in Range(drives)
               THEN IF Exists(d, selected \o <<Sep>>)
                    THEN Returned(selected \o <<Sep>>, <<"SWITCHED_DRIVE">>)
                    ELSE Returned(cur_path, <<"DRIVE_UNAVAILABLE">>)
               ELSE Returned(cur_path, <<"DRIVE_NOT_FOUND">>) :
             selected \in {selected_drive(drives, choice)} })

\* handle_windows_navigation, command 7 after its input()
choose_special(h, d, cur_path, paths, choice) ==
    IF choice # <<>> /\ IsDigit(choice)
       /\ 0 <= choice_index(choice) /\ choice_index(choice) < Len(paths)
       /\ choice_index(choice) < 10
    THEN The({ IF validate_windows_path(h, path)[1] /\ Exists(d, path)
               THEN Returned(path, <<"MOVE_TO_FOLDER">>)
               ELSE Returned(cur_path, <<"MOVE_TO_FOLDER", "PATH_UNAVAILABLE">>) :
             path \in {paths[choice_index(choice) + 1]} })
    ELSE Returned(cur_path, <<>>)

\* handle_windows_navigation from its input() on
navigation_choice(h, d, cmd, cur_path, list, choice) ==
    IF cmd = <<"6">> THEN choose_subdir(h, d, cur_path, list, choice)
    ELSE IF cmd = <<"8">> THEN choose_drive(h, d, cur_path, list, choice)
    ELSE choose_special(h, d, cur_path, list, choice)

\* A handler of the other commands that hands back the parent path.
run_plain_command_moving(h, d, cmd, cur_path) ==
    Returned(get_parent_path(cur_path), <<>>)

\* run_windows_command, the cases 1, 2, 3, 4, help, the empty command and the
\* unknown command: each ends with return current_path
run_plain_command(h, d, cmd, cur_path) ==
    IF cmd = <<"1">>
    THEN IF list_directory(h, d, cur_path)[1]
         THEN Returned(cur_path, <<"DIRECTORY_CONTENTS", "TOTAL_ITEMS">>)
         ELSE Returned(cur_path, <<"DIRECTORY_CONTENTS", "FAILED_LIST_DIR">>)
    ELSE IF cmd = <<"2">> THEN Returned(cur_path, <<"BASIC_STATS">>)
    ELSE IF cmd = <<"4">> THEN Returned(cur_path, <<"ADVANCED_STATS", "ANALYSIS_COMPLETE">>)
    ELSE IF cmd = <<"3">> THEN Returned(cur_path, <<"SEARCH_MENU", "STARTING_SEARCH">>)
    ELSE IF cmd = Help THEN Returned(cur_path, <<"HELP_TITLE">>)
    ELSE IF cmd = <<>> THEN Returned(cur_path, <<>>)
    ELSE Returned(cur_path, <<"UNKNOWN_COMMAND", "ENTER_HELP">>)

\* run_windows_command up to the return, the exit or the first input()
run_windows_command(h, d, cmd, cur_path) ==
    IF cmd \in NavCommands THEN handle_windows_navigation(h, d, cmd, cur_path)
    ELSE IF cmd = <<"0">> THEN Exited(cur_path, <<"EXIT_PROGRAM_CONFIRM", "THANK_YOU">>)
    ELSE run_plain_command(h, d, cmd, cur_path)

\* An acknowledgment test that compares the command without regard to case.
needs_ack_any_case(cmd) == Lower(cmd) \notin {Help, <<>>}

\* main(): whether the iteration ends with the keypress acknowledgment
needs_ack(cmd) == cmd \notin {Help, <<>>}

\* A main() whose loop body has no except Exception clause of its own.
exception_handler_outer_only(where) ==
    IF where \in LoopPcs \cup {"confirm"} THEN "outer_prompt" ELSE "exited"

\* main(): where an Exception raised at a statement is handled: in the loop body
\* by the inner clause, which continues; in the interrupt handler by the outer
\* clause, which waits for a key; elsewhere by nobody
exception_handler(where) ==
    IF where \in LoopPcs THEN "menu"
    ELSE IF where = "confirm" THEN "outer_prompt"
    ELSE "exited"

\* main(): where a KeyboardInterrupt raised at a statement is handled: in the loop
\* body by the inner clause, which asks; elsewhere by nobody
interrupt_handler(where) == IF where \in LoopPcs THEN "confirm" ELSE "exited"

\* The status of a process that ends by an exception nobody handles
UncaughtExceptionStatus == <<1>>
\* ... and by a KeyboardInterrupt nobody handles (the signed STATUS_CONTROL_C_EXIT
\* on the supported host, 128 + SIGINT elsewhere)
UncaughtInterruptStatus(h) == IF is_windows_os(h) THEN <<-1073741510>> ELSE <<130>>

\* ------------------------------------------------------------ the session
\* The lines typed at the command prompt, inside a navigation handler and at the
\* confirmation prompt
CommandLines ==
    {<<>>, <<" ">>, <<"0">>, <<"1">>, <<"2">>, <<"3">>, <<"4">>, <<"5">>, <<"6">>,
     <<"7">>, <<"8">>, <<"9">>, <<" ", "5", " ">>,
     Help, <<" ">> \o Help, Upper(Help),
     <<"e","x","i","t">>, <<"Q","u","i","t">>, <<"Q", " ">>}
ChoiceLines ==
    {<<>>, <<"1">>, <<"2">>, <<"9", "9">>, NDocuments, Lower(NDocuments), <<"a">>,
     <<"d">>, <<"D", Colon>>}
ConfirmLines == {<<"y">>, <<" ", "Y">>, <<"n">>, <<>>}

\* The directories the process is started in
StartPaths == {RootC, RootD, DirTest, DirA, LongDir, OverLongDir}

\* The commands of the end-to-end session, and the mark of a session that left it
ScenarioCommands == <<<<"1">>, <<"5">>, <<"0">>>>
Off == <<"off">>
Advance(scn, cmd, msgs) ==
    IF scn # Off /\ Len(scn) < Len(ScenarioCommands)
       /\ cmd = ScenarioCommands[Len(scn) + 1] /\ msgs # <<>>
    THEN Append(scn, msgs[Len(msgs)])
    ELSE Off

Init ==
    /\ fs = FsImage
    /\ host \in Hosts
    /\ cwd \in StartPaths
    /\ LibIdle
    /\ ChainIdle
    /\ WalkIdle
    /\ pc = "check" /\ current_path = <<>> /\ command = <<>> /\ confirm = <<>>
    /\ offered = <<>> /\ out = <<>> /\ exit_status = <<>>
    /\ at = "start" /\ event = "none" /\ iter_path = <<>> /\ scenario = <<>>

\* main(), line 323: check_windows_environment
StartupCheck ==
    /\ pc = "check"
    /\ IF is_windows_os(host)
       THEN pc' = "banner" /\ out' = <<>>
       ELSE /\ pc' = "fail_prompt"
            /\ out' = <<"ERROR_WINDOWS_ONLY", "CURRENT_OS", "PROGRAM_EXIT">>
    /\ at' = pc /\ event' = "step"
    /\ UNCHANGED <<walkVars, envVars, libVars, chainVars, current_path, command, confirm,
                   offered, exit_status, iter_path, scenario>>

\* main(), lines 324-325: a key is awaited, then sys.exit(1)
StartupExit ==
    /\ pc = "fail_prompt"
    /\ pc' = "exited" /\ exit_status' = <<1>> /\ out' = <<>>
    /\ at' = pc /\ event' = "input"
    /\ UNCHANGED <<walkVars, envVars, libVars, chainVars, current_path, command, confirm,
                   offered, iter_path, scenario>>

\* main(), lines 327-329: the banner, then current_path = os.getcwd()
Banner ==
    /\ pc = "banner"
    /\ current_path' = cwd
    /\ out' = <<"TITLE", "CURRENT_DRIVE", "CURRENT_PATH", "AVAILABLE_DRIVES",
                "HELP_COMMAND">>
    /\ pc' = "menu"
    /\ at' = pc /\ event' = "step"
    /\ UNCHANGED <<walkVars, envVars, libVars, chainVars, command, confirm, offered,
                   exit_status, iter_path, scenario>>

\* main(), line 334: display_main_menu
DisplayMenu ==
    /\ pc = "menu"
    /\ out' = <<"CURRENT_PATH", "MAIN_MENU_TITLE">>
    /\ pc' = "read"
    /\ iter_path' = current_path
    /\ at' = pc /\ event' = "step"
    /\ UNCHANGED <<walkVars, envVars, libVars, chainVars, current_path, command, confirm,
                   offered, exit_status, scenario>>

\* main(), lines 335-339 and, for an exit word, 366-367
ReadCommand ==
    /\ pc = "read"
    /\ \E line \in CommandLines :
        /\ command' = Strip(line)
        /\ IF Lower(command') \in ExitWords
           THEN /\ out' = <<"EXIT_PROGRAM_CONFIRM", "PROGRAM_COMPLETE">>
                /\ pc' = "exited" /\ exit_status' = <<0>>
           ELSE /\ out' = <<>>
                /\ pc' = "dispatch" /\ exit_status' = exit_status
    /\ at' = pc /\ event' = "input"
    /\ UNCHANGED <<walkVars, envVars, libVars, chainVars, current_path, confirm, offered,
                   iter_path, scenario>>

\* main(), lines 341-346: run_windows_command up to its return, its sys.exit(0)
\* or the input() of a navigation handler, and the assignment of the new path
Dispatch ==
    /\ pc = "dispatch"
    /\ \E r \in {run_windows_command(host, cwd, command, current_path)} :
        /\ out' = r.out
        /\ offered' = r.offered
        /\ event' = r.kind
        /\ scenario' = Advance(scenario, command, r.out)
        /\ IF r.kind = "exit"
           THEN pc' = "exited" /\ exit_status' = <<0>> /\ current_path' = current_path
           ELSE IF r.kind = "prompt"
           THEN pc' = "choice" /\ exit_status' = exit_status
                /\ current_path' = current_path
           ELSE /\ current_path' = r.path
                /\ pc' = IF needs_ack(command) THEN "ack" ELSE "menu"
                /\ exit_status' = exit_status
    /\ at' = pc
    /\ UNCHANGED <<walkVars, envVars, libVars, chainVars, command, confirm, iter_path>>

\* handle_windows_navigation from its input() to its return (lines 109-129,
\* 137-162, 175-188), and the assignment of the new path
Choose ==
    /\ pc = "choice"
    /\ \E line \in ChoiceLines :
        \E r \in {navigation_choice(host, cwd, command, current_path, offered,
                                    Strip(line))} :
            /\ out' = r.out
            /\ current_path' = r.path
    /\ offered' = <<>>
    /\ pc' = IF needs_ack(command) THEN "ack" ELSE "menu"
    /\ at' = pc /\ event' = "return"
    /\ UNCHANGED <<walkVars, envVars, libVars, chainVars, command, confirm, exit_status,
                   iter_path, scenario>>

\* main(), line 347: the keypress acknowledgment
Acknowledge ==
    /\ pc = "ack"
    /\ pc' = "menu" /\ out' = <<>>
    /\ at' = pc /\ event' = "input"
    /\ UNCHANGED <<walkVars, envVars, libVars, chainVars, current_path, command, confirm,
                   offered, exit_status, iter_path, scenario>>

\* A KeyboardInterrupt while the process is at pc: lines 349-350 when it is raised
\* in the loop body, the end of the process when it is raised anywhere else
RaiseInterrupt ==
    /\ pc \in LoopPcs \cup OuterPcs
    /\ pc' = interrupt_handler(pc)
    /\ IF pc' = "exited"
       THEN out' = <<"Traceback">> /\ exit_status' = UncaughtInterruptStatus(host)
       ELSE out' = <<"INTERRUPTED">> /\ exit_status' = exit_status
    /\ offered' = <<>>
    /\ scenario' = Off
    /\ at' = pc /\ event' = "interrupt"
    /\ UNCHANGED <<walkVars, envVars, libVars, chainVars, current_path, command, confirm,
                   iter_path>>

\* main(), lines 351-355 and, for the answer y, 366-367
Confirm ==
    /\ pc = "confirm"
    /\ \E line \in ConfirmLines :
        /\ confirm' = Lower(Strip(line))
        /\ IF confirm' = <<"y">>
           THEN /\ out' = <<"EXITING", "PROGRAM_COMPLETE">>
                /\ pc' = "exited" /\ exit_status' = <<0>>
           ELSE /\ out' = <<>>
                /\ pc' = "menu" /\ exit_status' = exit_status
    /\ at' = pc /\ event' = "input"
    /\ UNCHANGED <<walkVars, envVars, libVars, chainVars, current_path, command, offered,
                   iter_path, scenario>>

\* An Exception while the process is at pc: lines 357-360 when it is raised in the
\* loop body, lines 362-363 when it is raised in the interrupt handler, the end of
\* the process when it is raised anywhere else
RaiseException ==
    /\ pc \in LoopPcs \cup OuterPcs
    /\ pc' = exception_handler(pc)
    /\ IF pc' = "exited"
       THEN out' = <<"Traceback">> /\ exit_status' = UncaughtExceptionStatus
       ELSE /\ out' = IF pc' = "menu" THEN <<"CRITICAL_ERROR", "PROGRAM_COMPLETE">>
                      ELSE <<"CRITICAL_ERROR">>
            /\ exit_status' = exit_status
    /\ offered' = <<>>
    /\ scenario' = Off
    /\ at' = pc /\ event' = "error"
    /\ UNCHANGED <<walkVars, envVars, libVars, chainVars, current_path, command, confirm,
                   iter_path>>

\* main(), lines 364-367: a key is awaited, then the completion message and
\* sys.exit(0)
OuterExit ==
    /\ pc = "outer_prompt"
    /\ out' = <<"PROGRAM_COMPLETE">>
    /\ pc' = "exited" /\ exit_status' = <<0>>
    /\ at' = pc /\ event' = "input"
    /\ UNCHANGED <<walkVars, envVars, libVars, chainVars, current_path, command, confirm,
                   offered, iter_path, scenario>>

Next ==
    \/ StartupCheck \/ StartupExit \/ Banner
    \/ DisplayMenu \/ ReadCommand \/ Dispatch \/ Choose \/ Acknowledge
    \/ RaiseInterrupt \/ Confirm \/ RaiseException \/ OuterExit

Spec == Init /\ [][Next]_vars

\* ------------------------------------------------------------------ C1
\* The messages a navigation handler prints when it hands back another path
MoveMessages == {"MOVED_TO", "SWITCHED_DRIVE", "MOVE_TO_FOLDER"}

\* C1: after the start the current path changes only when one of the navigation
\* commands 5, 6, 7, 8 returns with a successful move; a dispatch of any other
\* input that returns leaves the current path as it was.
C1_PathFrame ==
    [][/\ (current_path' # current_path /\ pc # "banner") =>
            /\ pc \in {"dispatch", "choice"}
            /\ command \in NavCommands
            /\ event' = "return"
            /\ Range(out') \cap MoveMessages # {}
       /\ (pc = "dispatch" /\ command \notin NavCommands /\ event' = "return") =>
            current_path' = current_path]_vars

\* A listing returned after an earlier move to a directory the process was not
\* started in, and the path is still that directory.
C1_Witness ==
    /\ at = "dispatch" /\ event = "return" /\ command = <<"1">>
    /\ current_path = DirUsers /\ iter_path = DirUsers
    /\ "TOTAL_ITEMS" \in Range(out)

\* ------------------------------------------------------------------ C2
\* C2 as stated: the process ends with status 1 exactly when the host check
\* failed, and with status 0 in every other case.
C2_ExitStatus ==
    pc = "exited" =>
        IF is_windows_os(host) THEN exit_status = <<0>> ELSE exit_status = <<1>>

\* ------------------------------------------------------------------ C3
\* C3 as stated: after a successful startup check every end of the process with
\* status 0 has printed the completion message last.
C3_CompletionMessage ==
    (pc = "exited" /\ is_windows_os(host) /\ exit_status = <<0>>) =>
        "PROGRAM_COMPLETE" \in Range(out)

\* ------------------------------------------------------------------ C4
\* C4 as stated: an interrupt at any point of an iteration, the confirmation
\* prompt included, leads to the confirmation prompt with the current path
\* unchanged and without ending the process, and the prompt is left for the end
\* of the process only on the answer y and otherwise for the next iteration.
C4_InterruptConfirmed ==
    [][/\ (event' = "interrupt" /\ pc \in LoopPcs \cup {"confirm"}) =>
            /\ pc' = "confirm"
            /\ exit_status' = <<>>
            /\ current_path' = current_path
       /\ (pc = "confirm" /\ event' = "input") =>
            /\ current_path' = current_path
            /\ IF confirm' = <<"y">>
               THEN pc' = "exited" /\ exit_status' = <<0>>
               ELSE pc' = "menu" /\ exit_status' = <<>>]_vars

\* ------------------------------------------------------------------ C5
\* C5: a failure at the menu display, the input read, the dispatch or the
\* acknowledgment is caught and reported, the loop continues with the next
\* iteration and the current path keeps the value it had when the failure was
\* raised; up to the return of the dispatch that is the value it had before the
\* iteration.
C5_FailureCaught ==
    [][(event' = "error" /\ pc \in LoopPcs) =>
            /\ pc' = "menu"
            /\ "CRITICAL_ERROR" \in Range(out')
            /\ exit_status' = <<>>
            /\ current_path' = current_path
            /\ pc \in {"read", "dispatch", "choice"} => current_path' = iter_path]_vars

\* A failure at the acknowledgment that follows a successful move: it is reported
\* and the loop continues with the path the move produced.
C5_Witness ==
    /\ event = "error" /\ at = "ack" /\ pc = "menu"
    /\ "CRITICAL_ERROR" \in Range(out)
    /\ command \in NavCommands
    /\ current_path # iter_path

\* C5 as stated: after a failure anywhere in an iteration the current path has
\* the value it had before the iteration.
C5_PathBeforeIteration ==
    [][(event' = "error" /\ pc \in LoopPcs) =>
            /\ pc' = "menu"
            /\ "CRITICAL_ERROR" \in Range(out')
            /\ exit_status' = <<>>
            /\ current_path' = IF pc = "menu" THEN current_path ELSE iter_path]_vars

\* ------------------------------------------------------------------ C6
\* C6: when a dispatched command returns, the acknowledgment is requested before
\* the next menu exactly when the trimmed command is neither the literal help nor
\* empty, and the acknowledgment prompt is left for the menu only by its input
\* (or by a failure).
C6_AckUnlessHelpOrEmpty ==
    [][/\ event' = "return" =>
            /\ pc' \in {"ack", "menu"}
            /\ pc' = "ack" <=> command \notin {<<"h","e","l","p">>, <<>>}
       /\ (pc = "ack" /\ pc' = "menu") => event' \in {"input", "error"}]_vars

\* The help command in capitals is not the literal help: its dispatch returns
\* with the unknown-command message and the acknowledgment is requested.
C6_Witness ==
    /\ at = "dispatch" /\ event = "return" /\ pc = "ack"
    /\ command = <<"H","E","L","P">>
    /\ "UNKNOWN_COMMAND" \in Range(out)

\* ------------------------------------------------------------------ C7
\* The law of moveUp for one path
MoveUpLaw(h, p) ==
    LET parent == Dirname(p)
        r == move_up(h, p)
    IN  /\ r = IF validate_windows_path(h, parent)[1] THEN parent ELSE p
        /\ parent = p => r = p

\* A session that consisted of the commands 1, 5, 0 and nothing else
SessionDone == pc = "exited" /\ Len(scenario) = 3 /\ scenario # Off
NonEmptyWithParent(d) ==
    /\ IsDir(d, d)
    /\ \E i \in 1..Len(FsEntries) : FsKey(d, FsEntries[i].parent) = FsKey(d, d)
    /\ get_parent_path(d) # d
SessionAsClaimed ==
    /\ scenario = <<"TOTAL_ITEMS", "MOVED_TO", "THANK_YOU">>
    /\ current_path = get_parent_path(cwd)
    /\ exit_status = <<0>>

\* C7: moveUp returns the parent when the parent passes validation and otherwise
\* the input path, a root returns itself; and the commands 1, 5, 0 on a non-empty
\* directory that has a parent and whose own path passes validation yield a
\* listing, set the current path to the parent and end with status 0.
C7_MoveUp ==
    /\ pc = "check" => \A p \in PathInputs : MoveUpLaw(host, p)
    /\ (at = "dispatch" /\ command = <<"5">> /\ event = "return") =>
            MoveUpLaw(host, current_path)
    /\ (SessionDone /\ NonEmptyWithParent(cwd) /\ validate_windows_path(host, cwd)[1])
            => SessionAsClaimed

\* The session 1, 5, 0 started in a non-empty directory below a drive root.
C7_Witness ==
    /\ SessionDone /\ cwd = DirTest /\ NonEmptyWithParent(cwd)
    /\ current_path = DirUsers
    /\ scenario = <<"TOTAL_ITEMS", "MOVED_TO", "THANK_YOU">>

\* C7 as stated: the commands 1, 5, 0 on any non-empty directory that has a
\* parent yield a listing, set the current path to the parent and end with
\* status 0.
C7_SessionAnyDirectory ==
    (SessionDone /\ NonEmptyWithParent(cwd)) => SessionAsClaimed

\* ===================================== utils.validate_windows_path_recursive
\* A depth test that refuses the last permitted level as well.
depth_exceeded_at_limit(depth) == depth >= MAX_RECURSION_DEPTH

\* validate_windows_path_recursive: the test of the depth ceiling
depth_exceeded(depth) == depth > MAX_RECURSION_DEPTH

\* validate_windows_path_recursive: the entry of an invalid level
problem_entry(path_str, error_msg) == path_str \o <<Colon, " ">> \o error_msg

\* validate_windows_path_recursive: the problems of one level before its parent
\* is looked at
own_problems(h, path_str) ==
    The({ IF v[1] THEN <<>> ELSE <<problem_entry(path_str, v[2])>> :
          v \in {validate_windows_path(h, path_str)} })

\* validate_windows_path_recursive: the return value for a list of problems
chain_result(problems) == <<problems = <<>>, problems>>

\* The paths the chain is validated for: the short strings, the modelled tree and
\* drive paths of a given number of components, the first of which is a valid or
\* an invalid name.
DeepPath(n, first) ==
    [i \in 1..(2 * n + 2) |->
        IF i = 1 THEN "C" ELSE IF i = 2 THEN Colon ELSE IF i = 4 THEN first
        ELSE IF i % 2 = 1 THEN Sep ELSE "a"]
DeepPaths ==
    {DeepPath(n, first) :
        n \in (MAX_RECURSION_DEPTH - 1)..(MAX_RECURSION_DEPTH + 2), first \in {"a", "*"}}
ChainInputs == GenPaths \cup FsPaths \cup DeepPaths

InitChain ==
    /\ fs = FsImage
    /\ host \in Hosts
    /\ cwd = RootC
    /\ fn = "validate_windows_path_recursive"
    /\ arg \in ChainInputs
    /\ arg2 = <<>> /\ res = <<>>
    /\ MainIdle
    /\ WalkIdle
    /\ vr_pc = "call" /\ vr_path = arg /\ vr_depth = 0
    /\ vr_stack = <<>> /\ vr_ret = <<>>

\* validate_windows_path_recursive from its entry to its recursive call or, when
\* there is none, to its return (lines 146-164 and 168-171)
ChainCall ==
    /\ vr_pc = "call"
    /\ IF ~is_windows_os(host)
       THEN /\ vr_ret' = <<FALSE, <<<<"FUNCTION_WINDOWS_ONLY">>>>>>
            /\ vr_pc' = "return"
            /\ UNCHANGED <<vr_path, vr_depth, vr_stack>>
       ELSE IF depth_exceeded(vr_depth)
       THEN /\ vr_ret' = <<FALSE, <<<<"MAX_RECURSION_DEPTH">>>>>>
            /\ vr_pc' = "return"
            /\ UNCHANGED <<vr_path, vr_depth, vr_stack>>
       ELSE \E problems \in {own_problems(host, vr_path)},
               parent \in {get_parent_path(vr_path)} :
                IF parent # vr_path /\ parent # <<>>
                THEN /\ vr_stack' = Append(vr_stack, problems)
                     /\ vr_path' = parent
                     /\ vr_depth' = vr_depth + 1
                     /\ vr_pc' = "call"
                     /\ UNCHANGED vr_ret
                ELSE /\ vr_ret' = chain_result(problems)
                     /\ vr_pc' = "return"
                     /\ UNCHANGED <<vr_path, vr_depth, vr_stack>>
    /\ UNCHANGED <<walkVars, envVars, libVars, mainVars, histVars>>

\* The return of a call: to the caller, which adds the problems of the parent to
\* its own and returns in turn (lines 164-171), or out of the outermost call
ChainReturn ==
    /\ vr_pc = "return"
    /\ IF vr_stack = <<>>
       THEN /\ vr_pc' = "done"
            /\ UNCHANGED <<vr_path, vr_depth, vr_stack, vr_ret>>
       ELSE /\ vr_ret' = chain_result(IF ~vr_ret[1]
                                      THEN vr_stack[Len(vr_stack)] \o vr_ret[2]
                                      ELSE vr_stack[Len(vr_stack)])
            /\ vr_stack' = SubSeq(vr_stack, 1, Len(vr_stack) - 1)
            /\ vr_depth' = vr_depth - 1
            /\ vr_pc' = "return"
            /\ UNCHANGED vr_path
    /\ UNCHANGED <<walkVars, envVars, libVars, mainVars, histVars>>

NextChain == ChainCall \/ ChainReturn

\* A call that is started runs on until it has returned.
SpecChainFair == InitChain /\ [][NextChain]_vars /\ WF_vars(NextChain)

\* ----------------------------------------------------------------- C10
\* The levels of a path: the path, its parent, the parent of that and so on up
\* to the level that is its own parent or whose parent is empty. Parents(p, k)
\* are the first k of the successive parents of p.
LevelCap == MAX_RECURSION_DEPTH + 5
RECURSIVE Parents(_, _)
Parents(p, k) ==
    IF k = 1 THEN <<Dirname(p)>>
    ELSE LET near == Parents(p, k \div 2)
         IN  near \o Parents(near[Len(near)], k - k \div 2)
Levels(p) ==
    LET all == <<p>> \o Parents(p, LevelCap)
        Top(i) == all[i + 1] = all[i] \/ all[i + 1] = <<>>
    IN  IF \E i \in 1..LevelCap : Top(i)
        THEN Take(all, CHOOSE i \in 1..LevelCap :
                            Top(i) /\ \A j \in 1..(i - 1) : ~Top(j))
        ELSE all
LevelValid(h, q) == validate_windows_path(h, q)[1]
LevelEntry(h, q) == q \o <<Colon, " ">> \o validate_windows_path(h, q)[2]
\* The entries of the invalid ones among the first n levels, the path first
LevelEntries(h, lv, n) ==
    LET bad == Pick(lv, {i \in 1..Len(lv) : i <= n /\ ~LevelValid(h, lv[i])})
    IN  [i \in 1..Len(bad) |-> LevelEntry(h, bad[i])]
DepthMessage == <<"MAX_RECURSION_DEPTH">>

ChainContract ==
    LET lv == Levels(arg)
    IN  IF ~is_windows_os(host)
        THEN vr_ret = <<FALSE, <<<<"FUNCTION_WINDOWS_ONLY">>>>>>
        ELSE IF Len(lv) <= MAX_RECURSION_DEPTH + 1
        THEN /\ vr_ret[1] = (\A i \in 1..Len(lv) : LevelValid(host, lv[i]))
             /\ vr_ret[2] = LevelEntries(host, lv, Len(lv))
        ELSE /\ vr_ret[1] = FALSE
             /\ vr_ret[2] = LevelEntries(host, lv, MAX_RECURSION_DEPTH + 1)
                                \o <<DepthMessage>>

\* C10: a call of validatePathChainRecursive returns. On the supported host and
\* for a path with at most 100 ancestors it returns valid exactly when the path
\* and every ancestor pass validatePathSyntax, with one entry for each invalid
\* level, the path first and nearer ancestors before farther ones; with more than
\* 100 ancestors it returns invalid, with the entries of the invalid levels among
\* the path and its first 100 ancestors followed by the depth message. On any
\* other host it returns invalid with the single host message.
C10_ChainValidation ==
    /\ <>(vr_pc = "done")
    /\ [](vr_pc = "done" => ChainContract)

\* A path of 102 components whose first component is invalid has returned: the
\* ancestor at depth 101 is invalid and has no entry, the list ends with the depth
\* message.
C10_Witness ==
    /\ vr_pc = "done" /\ is_windows_os(host)
    /\ arg = DeepPath(MAX_RECURSION_DEPTH + 2, "*")
    /\ Len(vr_ret[2]) = MAX_RECURSION_DEPTH + 2
    /\ vr_ret[2][Len(vr_ret[2])] = DepthMessage

\* C10 as stated: the result is valid exactly when every level passes
\* validatePathSyntax (and the chain has at most 100 ancestors), and when it is
\* invalid the list has one entry for each invalid level, the path first.
C10_EntryPerInvalidLevel ==
    vr_pc = "done" =>
        LET lv == Levels(arg)
            entries == Pick(vr_ret[2], {i \in 1..Len(vr_ret[2]) :
                                            vr_ret[2][i] # DepthMessage})
        IN  /\ vr_ret[1] = /\ \A i \in 1..Len(lv) : LevelValid(host, lv[i])
                           /\ Len(lv) <= MAX_RECURSION_DEPTH + 1
            /\ ~vr_ret[1] => entries = LevelEntries(host, lv, Len(lv))

\* ========================================= utils.resolve_long_paths_recursive
\* The default prefix argument: the extended-length marker
LongPrefix == <<Sep, Sep, "?", Sep>>

\* resolve_long_paths_recursive, lines 252-259: what the test of an over-long
\* path returns, <<TRUE, result>>, or <<FALSE, _>> when no return is reached
long_path_return(path_str, prefix) ==
    IF Len(path_str) > MAX_PATH
    THEN IF StartsWith(path_str, <<Sep, Sep>>)
         THEN IF ~StartsWith(path_str, UncPrefix)
              THEN <<TRUE, UncPrefix \o Drop(path_str, 2)>>
              ELSE <<FALSE, path_str>>
         ELSE IF ~StartsWith(path_str, LongPrefix)
              THEN <<TRUE, prefix \o path_str>>
              ELSE <<TRUE, path_str>>
    ELSE <<FALSE, path_str>>

\* utils.resolve_long_paths_recursive
RECURSIVE resolve_long_paths_recursive(_, _)
resolve_long_paths_recursive(path_str, prefix) ==
    The({ IF early[1] THEN early[2]
          ELSE The({ IF parent = <<>> \/ parent = path_str THEN path_str
                     ELSE The({ IF resolved_parent # parent
                                THEN Join(resolved_parent, Basename(path_str))
                                ELSE path_str :
                              resolved_parent \in
                                  {resolve_long_paths_recursive(parent, prefix)} }) :
                   parent \in {get_parent_path(path_str)} }) :
        early \in {long_path_return(path_str, prefix)} })

\* The paths resolved: the short strings, the modelled tree, and drive paths,
\* network paths and paths that carry a marker, each at the limit and one over
LongTail(head, n) == head \o Repeat(<<"a">>, n - Len(head))
NetRoot == <<Sep, Sep, "s", Sep, "h", Sep>>
ResolveHeads ==
    {RootC, NetRoot, LongPrefix \o RootC, UncPrefix \o <<"s", Sep, "h", Sep>>,
     RootC \o <<"a", Sep>>, NetRoot \o <<"a", Sep>>}
ResolveInputs ==
    GenPaths \cup FsPaths
    \cup {LongTail(head, n) : head \in ResolveHeads, n \in {MAX_PATH, MAX_PATH + 1}}

InitResolve ==
    /\ fs = FsImage
    /\ host \in Hosts
    /\ cwd = RootC
    /\ fn = "none"
    /\ arg \in ResolveInputs
    /\ arg2 = <<>> /\ res = <<>>
    /\ MainIdle
    /\ ChainIdle
    /\ WalkIdle

\* a call of utils.resolve_long_paths_recursive(arg)
CallResolve ==
    /\ fn = "none"
    /\ fn' = "resolve_long_paths_recursive"
    /\ res' = resolve_long_paths_recursive(arg, LongPrefix)
    /\ UNCHANGED <<envVars, arg, arg2, mainVars, histVars, chainVars, walkVars>>

SpecResolve == InitResolve /\ [][CallResolve]_vars

\* ----------------------------------------------------------------- C11
\* C11 as stated: a path of at most 260 characters is returned as it is; a longer
\* path that already carries an extended-length marker is returned as it is; any
\* other longer path is returned with the marker in front, the UNC-aware marker
\* replacing the leading double backslash of a network path, the plain marker for
\* the rest.
C11_ResolveLongPath ==
    fn = "resolve_long_paths_recursive" =>
        IF Len(arg) <= 260 THEN res = arg
        ELSE IF StartsWith(arg, <<Sep, Sep, "?", Sep>>) THEN res = arg
        ELSE IF StartsWith(arg, <<Sep, Sep>>)
        THEN res = <<Sep, Sep, "?", Sep, "U", "N", "C", Sep>> \o Drop(arg, 2)
        ELSE res = <<Sep, Sep, "?", Sep>> \o arg


\* ---------------------------------------------------------------------
\* utils.format_size.  A size is held as its base-1024 digits, least
\* significant first (size = d[1] + d[2]*1024 + ... + d[5]*1024^4), so that
\* sizes up to and beyond 1024^4 stay inside the checker's integers.
\* ---------------------------------------------------------------------
UnitBase == 1024

Units == <<"B", "KB", "MB", "GB", "TB">>

\* size_bytes <= 1024**k
at_most_pow(size, k) ==
    \/ \A i \in (k + 1)..Len(size) : size[i] = 0
    \/ /\ k + 1 <= Len(size)
       /\ size[k + 1] = 1
       /\ \A i \in 1..Len(size) : i # k + 1 => size[i] = 0

\* size_bytes < 1024**k
below_pow(size, k) == \A i \in (k + 1)..Len(size) : size[i] = 0

\* the carry out of digit i when the digits ds are multiplied by m
RECURSIVE MulCarry(_, _, _)
MulCarry(ds, m, i) ==
    IF i = 0 THEN 0 ELSE (ds[i] * m + MulCarry(ds, m, i - 1)) \div UnitBase

\* digit i of (ds * m) modulo 1024^Len(ds)
MulDigit(ds, m, i) == (ds[i] * m + MulCarry(ds, m, i - 1)) % UnitBase

\* int(size_bytes / 1024**k)
RECURSIVE WholePart(_, _)
WholePart(size, k) ==
    IF k + 1 > Len(size) THEN 0
    ELSE size[k + 1] + UnitBase * WholePart(size, k + 1)

\* The first decimal of size_bytes / 1024**k before rounding, and how the
\* rest of the fraction compares with half a tenth: "above", "half", "below".
FirstDecimal(size, k) == MulCarry(SubSeq(size, 1, k), 10, k)

RestOfFraction(size, k) ==
    IF MulDigit(SubSeq(size, 1, k), 10, k) > UnitBase \div 2 THEN "above"
    ELSE IF MulDigit(SubSeq(size, 1, k), 10, k) < UnitBase \div 2 THEN "below"
    ELSE IF \E i \in 1..(k - 1) : MulDigit(SubSeq(size, 1, k), 10, i) # 0
         THEN "above"
         ELSE "half"

\* ":.1f" rounds the exact quotient to the nearest tenth, ties to even
RoundsUp(tenth, rest) == rest = "above" \/ (rest = "half" /\ tenth % 2 = 1)

OneDecimal(whole, tenth, up, unit) ==
    IF up
    THEN IF tenth = 9
         THEN [whole |-> whole + 1, tenth |-> 0, unit |-> unit]
         ELSE [whole |-> whole, tenth |-> tenth + 1, unit |-> unit]
    ELSE [whole |-> whole, tenth |-> tenth, unit |-> unit]

\* f"{size_bytes / 1024**k:.1f} <unit>"
scaled(size, k) ==
    OneDecimal(WholePart(size, k), FirstDecimal(size, k),
               RoundsUp(FirstDecimal(size, k), RestOfFraction(size, k)),
               Units[k + 1])

\* f"{size_bytes} B": no decimal, written as tenth = -1
in_bytes(size) == [whole |-> size[1], tenth |-> -1, unit |-> Units[1]]

unit_index_inclusive(size) ==
    IF at_most_pow(size, 1) THEN 0
    ELSE IF at_most_pow(size, 2) THEN 1
    ELSE IF at_most_pow(size, 3) THEN 2
    ELSE IF at_most_pow(size, 4) THEN 3
    ELSE 4

unit_index(size) ==
    IF below_pow(size, 1) THEN 0
    ELSE IF below_pow(size, 2) THEN 1
    ELSE IF below_pow(size, 3) THEN 2
    ELSE IF below_pow(size, 4) THEN 3
    ELSE 4

format_size(size_bytes) ==
    IF unit_index(size_bytes) = 0
    THEN in_bytes(size_bytes)
    ELSE scaled(size_bytes, unit_index(size_bytes))

SizeDigits == {0, 1, 5, 256, 512, 1023}

SizeInputs == [1..5 -> SizeDigits]

InitFormat ==
    /\ fs = FsImage
    /\ host \in Hosts
    /\ cwd = RootC
    /\ fn = "none"
    /\ arg \in SizeInputs
    /\ arg2 = <<>>
    /\ res = <<>>
    /\ MainIdle
    /\ ChainIdle
    /\ WalkIdle

CallFormat ==
    /\ fn = "none"
    /\ fn' = "format_size"
    /\ res' = format_size(arg)
    /\ UNCHANGED <<envVars, arg, arg2, mainVars, histVars, chainVars, walkVars>>

SpecFormat == InitFormat /\ [][CallFormat]_vars

\* the position of the highest non-zero digit (0 for the size 0)
TopDigit(size) ==
    IF \A i \in 1..Len(size) : size[i] = 0 THEN 0
    ELSE CHOOSE i \in 1..Len(size) :
             size[i] # 0 /\ \A j \in (i + 1)..Len(size) : size[j] = 0

\* the smallest unit under which the size is below 1024 units; TB from 1024^4 on
SmallestUnit(size) ==
    IF TopDigit(size) <= 1 THEN "B" ELSE Units[TopDigit(size)]

\* C12: format_size renders every size in the smallest of B, KB, MB, GB, TB
\* under which it is below 1024 units (TB from 1024^4 on): sizes below 1024
\* in whole bytes, 1024 .. 1024^2-1 in KB, 1024^2 .. 1024^3-1 in MB,
\* 1024^3 .. 1024^4-1 in GB; 1023 gives "1023 B", 1024 gives "1.0 KB" and
\* 5*1024*1024 gives "5.0 MB".
C12_FormatSize ==
    fn = "format_size" =>
        /\ res.unit = SmallestUnit(arg)
        /\ res.unit = "B" => (res.tenth = -1 /\ res.whole = arg[1])
        /\ res.unit # "B" => res.tenth \in 0..9
        /\ arg = <<1023, 0, 0, 0, 0>> =>
               res = [whole |-> 1023, tenth |-> -1, unit |-> "B"]
        /\ arg = <<0, 1, 0, 0, 0>> =>
               res = [whole |-> 1, tenth |-> 0, unit |-> "KB"]
        /\ arg = <<0, 0, 5, 0, 0>> =>
               res = [whole |-> 5, tenth |-> 0, unit |-> "MB"]

\* the size 1024 has been formatted
C12_Witness ==
    /\ fn = "format_size"
    /\ arg = <<0, 1, 0, 0, 0>>
    /\ res.unit = "KB"

\* ---------------------------------------------------------------------
\* navigation.is_windows_system_path and build_windows_tree_recursive
\* ---------------------------------------------------------------------
\* keyword in text
Contains(text, keyword) ==
    \E i \in 0..(Len(text) - Len(keyword)) :
        SubSeq(text, i + 1, i + Len(keyword)) = keyword

\* The components of r between separators, in order
ComponentStarts(r) ==
    {i \in 1..Len(r) : r[i] # Sep /\ (i = 1 \/ r[i - 1] = Sep)}
ComponentAt(r, i) ==
    SubSeq(r, i, CHOOSE j \in i..Len(r) :
                     /\ \A k \in i..j : r[k] # Sep
                     /\ (j = Len(r) \/ r[j + 1] = Sep))
Components(r) ==
    The({ [n \in 1..Cardinality(starts) |->
             ComponentAt(r, CHOOSE i \in starts :
                                Cardinality({j \in starts : j < i}) = n - 1)] :
        starts \in {ComponentStarts(r)} })

\* ntpath.normpath: "." components dropped, ".." taking the component before
\* it (at a rooted path's top it is dropped)
RECURSIVE ResolveDots(_, _, _)
ResolveDots(comps, rooted, done) ==
    IF comps = <<>> THEN done
    ELSE IF Head(comps) = <<".">> THEN ResolveDots(Tail(comps), rooted, done)
    ELSE IF Head(comps) = <<".", ".">>
         THEN IF done # <<>> /\ done[Len(done)] # <<".", ".">>
              THEN ResolveDots(Tail(comps), rooted, SubSeq(done, 1, Len(done) - 1))
              ELSE IF done = <<>> /\ rooted
                   THEN ResolveDots(Tail(comps), rooted, done)
                   ELSE ResolveDots(Tail(comps), rooted, Append(done, Head(comps)))
    ELSE ResolveDots(Tail(comps), rooted, Append(done, Head(comps)))

RECURSIVE JoinComponents(_)
JoinComponents(comps) ==
    IF comps = <<>> THEN <<>>
    ELSE IF Len(comps) = 1 THEN comps[1]
    ELSE comps[1] \o <<Sep>> \o JoinComponents(Tail(comps))

\* rest has a "." or ".." component
HasDots(rest) ==
    \E i \in 1..Len(rest) :
        /\ rest[i] = "."
        /\ (i = 1 \/ rest[i - 1] = Sep)
        /\ \/ i = Len(rest)
           \/ rest[i + 1] = Sep
           \/ rest[i + 1] = "." /\ (i + 1 = Len(rest) \/ rest[i + 2] = Sep)

\* rest has a repeated or a trailing separator
HasSpareSeps(rest) ==
    \E i \in 2..Len(rest) : rest[i] = Sep /\ (i = Len(rest) \/ rest[i - 1] = Sep)

NormRest(drv, rest) ==
    IF rest # <<>> /\ ~HasDots(rest) /\ ~HasSpareSeps(rest)
    THEN drv \o rest
    ELSE The({ IF drv = <<>> /\ body = <<>> THEN <<".">> ELSE drv \o body :
        body \in { (IF rest # <<>> /\ rest[1] = Sep THEN <<Sep>> ELSE <<>>)
                   \o JoinComponents(ResolveDots(Components(rest),
                                                 rest # <<>> /\ rest[1] = Sep,
                                                 <<>>)) } })

normpath(path) ==
    The({ NormRest(sd[1], sd[2]) : sd \in {SplitDrive(ReplaceAlt(path))} })

system_keywords ==
    << <<"W","i","n","d","o","w","s">>,
       <<"P","r","o","g","r","a","m"," ","F","i","l","e","s">>,
       <<"P","r","o","g","r","a","m","D","a","t","a">>,
       <<"$">>,
       <<"S","y","s","t","e","m"," ","V","o","l","u","m","e"," ",
         "I","n","f","o","r","m","a","t","i","o","n">> >>

is_windows_system_path(path) ==
    \E n \in {normpath(path)} :
        \E k \in 1..Len(system_keywords) : Contains(n, system_keywords[k])

\* A second tree, with non-empty system directories, hidden files and five
\* levels below the drive root.
WalkU == Join(DirUsers, <<"u">>)
WalkD == Join(WalkU, <<"d">>)
WalkE == Join(WalkD, <<"e">>)
DirRecycle == RootC \o <<"$", "R">>
DirSystem32 == Join(DirWindows, <<"S","y","s","t","e","m","3","2">>)
WalkEntries ==
    << [parent |-> RootC,       name |-> NUsers,    kind |-> "dir",  stat_ok |-> TRUE,  hidden |-> FALSE, listable |-> TRUE],
       [parent |-> RootC,       name |-> NWindows,  kind |-> "dir",  stat_ok |-> TRUE,  hidden |-> FALSE, listable |-> TRUE],
       [parent |-> RootC,       name |-> <<"$","R">>, kind |-> "dir", stat_ok |-> TRUE, hidden |-> TRUE, listable |-> TRUE],
       [parent |-> RootC,       name |-> NLocked,   kind |-> "file", stat_ok |-> FALSE, hidden |-> TRUE, listable |-> TRUE],
       [parent |-> RootC,       name |-> NTemp,     kind |-> "dir",  stat_ok |-> TRUE,  hidden |-> FALSE, listable |-> FALSE],
       [parent |-> DirUsers,    name |-> <<"u">>,   kind |-> "dir",  stat_ok |-> TRUE,  hidden |-> FALSE, listable |-> TRUE],
       [parent |-> WalkU,       name |-> <<"d">>,   kind |-> "dir",  stat_ok |-> TRUE,  hidden |-> TRUE, listable |-> TRUE],
       [parent |-> WalkU,       name |-> NFile,     kind |-> "file", stat_ok |-> TRUE,  hidden |-> FALSE, listable |-> TRUE],
       [parent |-> WalkU,       name |-> <<"b",".","E","X","E">>, kind |-> "file", stat_ok |-> TRUE, hidden |-> TRUE, listable |-> TRUE],
       [parent |-> WalkD,       name |-> <<"e">>,   kind |-> "dir",  stat_ok |-> TRUE,  hidden |-> FALSE, listable |-> TRUE],
       [parent |-> WalkD,       name |-> <<"c",".","t","x","t">>, kind |-> "file", stat_ok |-> TRUE, hidden |-> FALSE, listable |-> TRUE],
       [parent |-> WalkE,       name |-> <<"f",".","l","o","g">>, kind |-> "file", stat_ok |-> TRUE, hidden |-> FALSE, listable |-> TRUE],
       [parent |-> DirWindows,  name |-> <<"S","y","s","t","e","m","3","2">>, kind |-> "dir", stat_ok |-> TRUE, hidden |-> FALSE, listable |-> TRUE],
       [parent |-> DirWindows,  name |-> <<"w",".","i","n","i">>, kind |-> "file", stat_ok |-> TRUE, hidden |-> FALSE, listable |-> TRUE],
       [parent |-> DirSystem32, name |-> <<"k",".","d","l","l">>, kind |-> "file", stat_ok |-> TRUE, hidden |-> FALSE, listable |-> TRUE],
       [parent |-> DirRecycle,  name |-> <<"x",".","t","m","p">>, kind |-> "file", stat_ok |-> TRUE, hidden |-> FALSE, listable |-> TRUE] >>

\* The image of a tree given by its entries and drive roots (as FsImage), with
\* the keys of the entries that carry the hidden attribute and can be stat'ed
\* and of the directories whose listing is denied (os.listdir raises
\* PermissionError there, so nothing below them is listed).  A file is as
\* many bytes long as its name.
ImageOf(entries, roots) ==
    The({ [dirs   |-> dd[1],
           files  |-> {Lower(EntryPath(entries[i])) :
                          i \in {j \in 1..Len(entries) : entries[j].kind = "file"}},
           list   |-> [k \in dd[1] |->
                         IF k \in dd[2] THEN <<>>
                         ELSE Pick(entries, {i \in 1..Len(entries) :
                                               Lower(entries[i].parent) = k})],
           hidden |-> {Lower(EntryPath(entries[i])) :
                          i \in {j \in 1..Len(entries) :
                                    entries[j].stat_ok /\ entries[j].hidden}},
           denied |-> dd[2],
           size   |-> [k \in {Lower(EntryPath(entries[i])) :
                                 i \in {j \in 1..Len(entries) : entries[j].kind = "file"}} |->
                         Len(entries[CHOOSE i \in 1..Len(entries) :
                                        /\ entries[i].kind = "file"
                                        /\ Lower(EntryPath(entries[i])) = k].name)]] :
        dd \in { << {Lower(r) : r \in roots}
                    \cup {Lower(EntryPath(entries[i])) :
                             i \in {j \in 1..Len(entries) : entries[j].kind = "dir"}},
                    {Lower(EntryPath(entries[i])) :
                             i \in {j \in 1..Len(entries) :
                                       entries[j].kind = "dir" /\ ~entries[j].listable}} >> } })
WalkImage == ImageOf(WalkEntries, FsRoots)

\* utils.is_hidden_windows_file: the hidden bit of the attributes; False when
\* os.stat raises, and on a host without st_file_attributes and ctypes.windll
is_hidden_windows_file(h, d, path) ==
    /\ is_windows_os(h)
    /\ path # <<>>
    /\ FsKey(d, path) \in fs.hidden

\* depth > max_depth
depth_passed(depth, max_depth) == depth > max_depth

\* depth >= max_depth
depth_reached(depth, max_depth) == depth >= max_depth

tree_leaf(name, type) == [name |-> name, type |-> type, children |-> <<>>]

RECURSIVE build_windows_tree_recursive(_, _, _, _, _)
RECURSIVE tree_child(_, _, _, _, _, _)
tree_child(h, d, item_path, item_name, depth, max_depth) ==
    IF IsDir(d, item_path)
    THEN IF is_windows_system_path(item_path)
         THEN tree_leaf(item_name, "system_directory")
         ELSE build_windows_tree_recursive(h, d, item_path, depth + 1, max_depth)
    ELSE [name |-> item_name, type |-> "file",
          hidden |-> is_hidden_windows_file(h, d, item_path)]

build_windows_tree_recursive(h, d, path, depth, max_depth) ==
    IF depth_reached(depth, max_depth)
    THEN tree_leaf(Basename(path), "directory")
    ELSE IF is_windows_system_path(path)
    THEN tree_leaf(Basename(path), "system_directory")
    ELSE [name |-> Basename(path),
          type |-> "directory",
          children |->
              The({ [i \in 1..Len(items) |->
                       The({ tree_child(h, d, ip, items[i], depth, max_depth) :
                               ip \in {Join(path, items[i])} })] :
                  items \in {safe_windows_listdir(d, path)} })]

TreePaths ==
    {RootC, DirUsers, WalkU, WalkD, DirWindows, DirSystem32, DirRecycle, DirTemp,
     DirWindows \o <<Sep, ".", ".">>, <<"C", Colon, AltSep>> \o NUsers,
     Join(WalkU, NFile), RootC \o <<"n","o","p","e">>}
TreeDepths == 0..2
TreeMaxDepths == {0, 1, 2, 3, 5}

InitTree ==
    /\ fs = WalkImage
    /\ host \in Hosts
    /\ cwd = RootC
    /\ fn = "none"
    /\ arg \in TreePaths
    /\ arg2 \in TreeDepths \X TreeMaxDepths
    /\ res = <<>>
    /\ MainIdle
    /\ ChainIdle
    /\ WalkIdle

CallTree ==
    /\ fn = "none"
    /\ fn' = "build_windows_tree_recursive"
    /\ res' = build_windows_tree_recursive(host, cwd, arg, arg2[1], arg2[2])
    /\ UNCHANGED <<envVars, arg, arg2, mainVars, histVars, chainVars, walkVars>>

SpecTree == InitTree /\ [][CallTree]_vars

\* The nodes of a tree that are not files, each with the path it stands for,
\* its depth and the number of its children
RECURSIVE TreeNodes(_, _, _)
TreeNodes(node, path, depth) ==
    IF node.type = "file" THEN {}
    ELSE {[type |-> node.type, children |-> Len(node.children),
           path |-> path, depth |-> depth]}
         \cup UNION {TreeNodes(node.children[i],
                               Join(path, node.children[i].name), depth + 1) :
                        i \in 1..Len(node.children)}

ResultNodes == TreeNodes(res, arg, arg2[1])
IsCallRoot(n) == n.depth = arg2[1]

\* C13 as stated: every directory node on a system path is typed
\* system_directory with no children, and every directory node at depth >=
\* max_depth is typed directory with no children.
C13_SystemAndDepthAsStated ==
    fn = "build_windows_tree_recursive" =>
        \A n \in ResultNodes :
            /\ is_windows_system_path(n.path) =>
                   (n.type = "system_directory" /\ n.children = 0)
            /\ n.depth >= arg2[2] =>
                   (n.type = "directory" /\ n.children = 0)

\* C13: in the tree returned by build_windows_tree_recursive no directory node
\* on a system path and no directory node at depth >= max_depth has children
\* (also when the directory is not empty); a system-path node is typed
\* system_directory unless it is the root of a call with depth >= max_depth,
\* which is typed directory; a node at depth >= max_depth is typed directory
\* unless it is a child on a system path, which is typed system_directory; no
\* node lies deeper than max_depth (or than the root, if that is deeper).
C13_TreeStops ==
    fn = "build_windows_tree_recursive" =>
        \A n \in ResultNodes :
            /\ (is_windows_system_path(n.path) \/ n.depth >= arg2[2]) =>
                   n.children = 0
            /\ is_windows_system_path(n.path) =>
                   IF IsCallRoot(n) /\ n.depth >= arg2[2]
                   THEN n.type = "directory"
                   ELSE n.type = "system_directory"
            /\ n.depth >= arg2[2] =>
                   IF is_windows_system_path(n.path) /\ ~IsCallRoot(n)
                   THEN n.type = "system_directory"
                   ELSE n.type = "directory"
            /\ ~is_windows_system_path(n.path) => n.type = "directory"
            /\ n.depth <= arg2[1] \/ n.depth <= arg2[2]

\* a tree with a non-empty system directory as a childless child and a
\* non-empty directory cut at max_depth
C13_Witness ==
    /\ fn = "build_windows_tree_recursive"
    /\ arg = RootC
    /\ arg2 = <<0, 2>>
    /\ \E n \in ResultNodes :
          n.path = DirWindows /\ n.type = "system_directory" /\ n.children = 0
    /\ \E n \in ResultNodes :
          n.path = WalkU /\ n.depth = 2 /\ n.type = "directory" /\ n.children = 0
    /\ FsChildren(cwd, DirWindows) # <<>>
    /\ FsChildren(cwd, WalkU) # <<>>

\* ---------------------------------------------------------------------
\* analysis.analyze_windows_file_types: the categories and the summary
\* ---------------------------------------------------------------------
\* the last index of s that holds a character of cs, 0 when there is none
LastIndexOf(s, cs) ==
    IF \E i \in 1..Len(s) : s[i] \in cs
    THEN CHOOSE i \in 1..Len(s) : s[i] \in cs /\ \A j \in (i + 1)..Len(s) : s[j] \notin cs
    ELSE 0

\* os.path.splitext(p)[1] (ntpath): from the last dot of the last component,
\* unless only dots come before it
splitext(p) ==
    The({ IF ix[2] > ix[1] /\ \E k \in (ix[1] + 1)..(ix[2] - 1) : p[k] # "."
          THEN SubSeq(p, ix[2], Len(p))
          ELSE <<>> :
        ix \in {<<LastIndexOf(p, Seps), LastIndexOf(p, {"."})>>} })

windows_extensions ==
    { <<<<".","e","x","e">>, "Executable file">>,
       <<<<".","d","l","l">>, "Dynamic library">>,
       <<<<".","m","s","i">>, "Installer">>,
       <<<<".","b","a","t">>, "Batch file">>,
       <<<<".","p","s","1">>, "PowerShell script">>,
       <<<<".","c","m","d">>, "Command file">>,
       <<<<".","d","o","c","x">>, "Word document">>,
       <<<<".","x","l","s","x">>, "Excel spreadsheet">>,
       <<<<".","p","p","t","x">>, "PowerPoint presentation">>,
       <<<<".","p","d","f">>, "PDF document">>,
       <<<<".","t","x","t">>, "Text file">>,
       <<<<".","j","p","g">>, "Image">>,
       <<<<".","j","p","e","g">>, "Image">>,
       <<<<".","p","n","g">>, "Image">>,
       <<<<".","g","i","f">>, "Image">>,
       <<<<".","z","i","p">>, "Archive">>,
       <<<<".","r","a","r">>, "Archive">>,
       <<<<".","7","z">>, "Archive">>,
       <<<<".","t","a","r">>, "Archive">>,
       <<<<".","g","z">>, "Archive">>,
       <<<<".","l","o","g">>, "Log file">>,
       <<<<".","i","n","i">>, "Configuration file">>,
       <<<<".","s","y","s">>, "System file">>,
       <<<<".","t","m","p">>, "Temporary file">> }

\* the category of a file name; the extension is taken as written
category_as_written(name) ==
    IF \E row \in windows_extensions : row[1] = splitext(name)
    THEN (CHOOSE row \in windows_extensions : row[1] = splitext(name))[2]
    ELSE "Other"

\* the category of a file name: the table entry of its lower-cased extension
category_of(name) ==
    \* ext = ext.lower(); windows_extensions[ext] or 'Other'
    The({ IF \E row \in windows_extensions : row[1] = ext
          THEN (CHOOSE row \in windows_extensions : row[1] = ext)[2]
          ELSE "Other" :
        ext \in {Lower(splitext(name))} })

\* Fractions, for count / total_files * 100: <<numerator, denominator>> in
\* lowest terms (the code computes in floating point)
RECURSIVE Gcd(_, _)
Gcd(a, b) == IF b = 0 THEN a ELSE Gcd(b, a % b)

\* the sum of item['size'] over items, by counting the bytes
total_of(items) ==
    Cardinality(UNION {{<<i, k>> : k \in 1..items[i].size} : i \in 1..Len(items)})

Fraction(n, m) == The({ <<n \div g, m \div g>> : g \in {Gcd(n, m)} })
FractionTimes(q, k) == Fraction(q[1] * k, q[2])

\* stats after the loop over the counted files: every file adds 1 to the
\* count of its category and its lower-cased extension to the category's
\* set, and its size to the category's total_size
file_type_stats(items) ==
    [c \in {category_of(items[i].name) : i \in 1..Len(items)} |->
        [count |-> Cardinality({i \in 1..Len(items) : category_of(items[i].name) = c}),
         total_size |-> total_of(Pick(items, {i \in 1..Len(items) :
                                                category_of(items[i].name) = c})),
         extensions |-> {Lower(splitext(items[i].name)) :
                           i \in {j \in 1..Len(items) :
                                     category_of(items[j].name) = c}}]]

\* sum(data['count'] for data in stats.values())
RECURSIVE SumCounts(_, _)
SumCounts(stats, cs) ==
    IF cs = {} THEN 0
    ELSE The({ stats[c].count + SumCounts(stats, cs \ {c}) :
               c \in {CHOOSE x \in cs : TRUE} })
SumOfCounts(stats) == SumCounts(stats, DOMAIN stats)

\* sum(data['total_size'] for data in stats.values())
RECURSIVE SumSizes(_, _)
SumSizes(stats, cs) ==
    IF cs = {} THEN 0
    ELSE The({ stats[c].total_size + SumSizes(stats, cs \ {c}) :
               c \in {CHOOSE x \in cs : TRUE} })
SumOfSizes(stats) == SumSizes(stats, DOMAIN stats)

\* the end of analyze_windows_file_types: the percentages of the categories
with_percentages(stats) ==
    The({ [c \in DOMAIN stats |->
             [count |-> stats[c].count,
              total_size |-> stats[c].total_size,
              extensions |-> stats[c].extensions,
              percentage |->
                 IF totals[1] > 0
                 THEN FractionTimes(Fraction(stats[c].count, totals[1]), 100)
                 ELSE <<0, 1>>,
              size_percentage |->
                 IF totals[2] > 0
                 THEN FractionTimes(Fraction(stats[c].total_size, totals[2]), 100)
                 ELSE <<0, 1>>,
              avg_size |->
                 IF stats[c].count > 0
                 THEN Fraction(stats[c].total_size, stats[c].count)
                 ELSE <<0, 1>>]] :
          totals \in {<<SumOfCounts(stats), SumOfSizes(stats)>>} })

\* analyze_windows_file_types: <<success, stats>> from the items counted
analyze_windows_file_types(h, path, items) ==
    IF ~validate_windows_path(h, path)[1] THEN <<FALSE, <<>>>>
    ELSE <<TRUE, with_percentages(file_type_stats(items))>>

\* ---------------------------------------------------------------------
\* search.find_files_windows: the match of a name
\* ---------------------------------------------------------------------
\* os.path.normcase: ntpath lower-cases and turns '/' into '\', posixpath
\* returns the string as it is
normcase(h, s) == IF is_windows_os(h) THEN Lower(ReplaceAlt(s)) ELSE s

\* fnmatch.fnmatchcase for patterns of literal characters, '*' and '?':
\* name from position i matches pat from position j
RECURSIVE MatchFrom(_, _, _, _)
MatchFrom(name, pat, i, j) ==
    IF j > Len(pat) THEN i > Len(name)
    ELSE IF pat[j] = "*"
    THEN \E k \in i..(Len(name) + 1) : MatchFrom(name, pat, k, j + 1)
    ELSE /\ i <= Len(name)
         /\ (pat[j] = "?" \/ pat[j] = name[i])
         /\ MatchFrom(name, pat, i + 1, j + 1)

fnmatchcase(name, pat) ==
    CHOOSE r \in { MatchFrom(nv, pv, 1, 1) : nv \in {name}, pv \in {pat} } : TRUE

\* a match that leaves the case to its caller
fnmatch_as_given(h, name, pat) == fnmatchcase(name, pat)

\* fnmatch.fnmatch: both strings are case-normalised for the host first
fnmatch(h, name, pat) == fnmatchcase(normcase(h, name), normcase(h, pat))

\* search_recursive: whether the file is added to results
find_matches(h, filename, pattern, case_sensitive) ==
    IF ~case_sensitive
    THEN fnmatch(h, Lower(filename), Lower(pattern))
    ELSE fnmatch(h, filename, pattern)

\* an entry of a tree that can be stat'ed, listed and is not hidden
DupEntry(parent, name, kind) ==
    [parent |-> parent, name |-> name, kind |-> kind,
     stat_ok |-> TRUE, hidden |-> FALSE, listable |-> TRUE]

\* A folder F with text files whose names differ in case, another file and a
\* subfolder
DirF == RootC \o <<"F">>
DirFS == DirF \o <<Sep, "s">>
NReport == <<"R","E","P","O","R","T",".","T","X","T">>
FindEntries ==
    << DupEntry(RootC, <<"F">>, "dir"),
       DupEntry(DirF, NReport, "file"),
       DupEntry(DirF, <<"n","o","t","e","s",".","t","x","t">>, "file"),
       DupEntry(DirF, <<"d","a","t","a",".","c","s","v">>, "file"),
       DupEntry(DirF, <<"s">>, "dir"),
       DupEntry(DirFS, <<"R","e","a","d","m","e",".","T","x","t">>, "file") >>
FindImage == ImageOf(FindEntries, FsRoots)
PatTxt == <<"*",".","t","x","t">>
FindPatterns == {PatTxt, <<"*",".","T","X","T">>, <<"R","?","P","O","R","T",".","*">>}

\* ---------------------------------------------------------------------
\* The recursive traversals as one frame machine.  tv_kind names the function:
\*   "walk"      analysis.safe_file_walk
\*   "tree"      navigation.build_windows_tree_recursive
\*   "explore"   navigation.recursive_path_explorer
\*   "structure" navigation.analyze_windows_structure_recursive
\*   "count"     analysis.count_files (get_windows_file_attributes_stats and
\*               search.find_* recurse in the same way, with the same
\*               ceiling)
\*   "bytes"     analysis.count_bytes
\*   "types"     analysis.analyze_windows_file_types
\*   "find"      search.find_files_windows
\*   "content"   search.recursive_content_search
\*   "scan"      search.recursive_security_scan
\* A frame is one activation: its path, depth, position ("enter", "list",
\* "loop"), the items of its listing, the index of the next item and, for
\* the explorer, its history list.  tv_out holds, for the explorer, the
\* yielded pairs: the path and a copy of the history.
\* ---------------------------------------------------------------------
WalkKinds ==
    {"walk", "tree", "explore", "structure", "count", "bytes", "types", "find",
     "content", "scan"}
ListingKinds == {"explore", "count", "bytes", "types", "find", "content", "scan"}

\* A directory that links back to its parent: C:\r\l is C:\r again.  The image
\* unrolls the cycle LoopDepth times; below that the tree is cut.
LoopDepth == 140
LoopRoot == RootC \o <<"r">>
LoopPath(n) == LoopRoot \o Repeat(<<Sep, "l">>, n)
LoopEntries ==
    [i \in 1..(2 * LoopDepth + 1) |->
        IF i = 1
        THEN [parent |-> RootC, name |-> <<"r">>, kind |-> "dir",
              stat_ok |-> TRUE, hidden |-> FALSE, listable |-> TRUE]
        ELSE IF i % 2 = 0
        THEN [parent |-> LoopPath((i \div 2) - 1), name |-> <<"l">>,
              kind |-> "dir", stat_ok |-> TRUE, hidden |-> FALSE, listable |-> TRUE]
        ELSE [parent |-> LoopPath((i \div 2) - 1), name |-> NFile,
              kind |-> "file", stat_ok |-> TRUE, hidden |-> FALSE, listable |-> TRUE]]
LoopImage == ImageOf(LoopEntries, FsRoots)

\* the test that ends an activation before it lists anything
ceiling_never(kind, depth, max_depth) == FALSE

ceiling_hit(kind, depth, max_depth) ==
    CASE kind = "walk" -> depth > 100
      [] kind = "tree" -> depth_reached(depth, max_depth)
      [] kind = "explore" -> FALSE
      [] kind = "structure" -> depth > 10
      [] kind \in {"count", "bytes", "types", "find"} -> depth > 20
      [] kind = "content" -> depth > 10
      [] kind = "scan" -> depth > 5

Frame(path, depth, history) ==
    [path |-> path, depth |-> depth, at |-> "enter", items |-> <<>>, idx |-> 1,
     history |-> history]

\* a history that is handed on as it came
history_unchanged(history, start_path) == history

\* recursive_path_explorer: history.append(start_path)
history_entered(history, start_path) == Append(history, start_path)

\* the history argument of a recursive call: history.copy() in the explorer,
\* nothing in the other traversals
history_passed(kind, history) == IF kind = "explore" THEN history ELSE <<>>

\* pattern.replace("*", "")
WithoutStars(pattern) == Pick(pattern, {i \in 1..Len(pattern) : pattern[i] # "*"})

\* analyze_windows_structure_recursive: the entries one item adds
structure_entry(h, d, level, name, item_path, pattern) ==
    IF ~Exists(d, item_path) THEN <<>>
    ELSE IF IsDir(d, item_path)
    THEN << <<level,
              IF is_windows_system_path(item_path) THEN "SYS_DIR"
              ELSE IF is_hidden_windows_file(h, d, item_path) THEN "HID_DIR"
              ELSE "DIR",
              normpath(item_path)>> >>
    ELSE IF pattern # <<"*">> /\ ~EndsWith(Lower(name), Lower(WithoutStars(pattern)))
    THEN <<>>
    ELSE << <<level,
              IF is_hidden_windows_file(h, d, item_path) THEN "HID_FILE" ELSE "FILE",
              normpath(item_path)>> >>

explore_descends_system(item_type, next_path) == item_type = "folder"

\* recursive_path_explorer: the subfolders it recurses into
explore_descends(item_type, next_path) ==
    item_type = "folder" /\ ~is_windows_system_path(next_path)

\* whether the item is a directory the traversal recurses into
descends(kind, d, item_type, item_path) ==
    CASE kind = "walk" -> IsDir(d, item_path)
      [] kind = "tree" -> IsDir(d, item_path) /\ ~is_windows_system_path(item_path)
      [] kind = "explore" -> explore_descends(item_type, item_path)
      [] kind = "structure" ->
             IsDir(d, item_path) /\ ~is_windows_system_path(item_path)
      [] kind \in {"count", "bytes", "types", "find", "content", "scan"} ->
             item_type = "folder"

\* what handling the item records or yields
\* an item without a size
item_size_zero(d, item_path) == 0

\* list_directory: item['size'] of a file
item_size(d, item_path) == fs.size[FsKey(d, item_path)]

item_output(kind, h, d, depth, item, item_path, params) ==
    CASE kind = "walk" ->
             IF ~IsDir(d, item_path) /\ IsFile(d, item_path)
             THEN <<item_path>> ELSE <<>>
      [] kind = "tree" ->
             IF IsDir(d, item_path)
             THEN IF is_windows_system_path(item_path)
                  THEN <<[name |-> item.name, type |-> "system_directory",
                          depth |-> depth + 1]>>
                  ELSE <<>>
             ELSE <<[name |-> item.name, type |-> "file", depth |-> depth + 1]>>
      [] kind = "explore" -> <<>>
      [] kind = "structure" ->
             structure_entry(h, d, depth, item.name, item_path, params[2])
      [] kind = "types" ->
             IF item.type = "folder" THEN <<>>
             ELSE <<[name |-> item.name, size |-> item_size(d, item_path)]>>
      [] kind = "bytes" ->
             IF item.type = "folder" THEN <<>>
             ELSE <<[size |-> item_size(d, item_path)]>>
      [] kind = "find" ->
             IF item.type # "folder"
                /\ find_matches(h, item.name, params[2], params[1])
             THEN <<item_path>> ELSE <<>>
      [] kind \in {"count", "content", "scan"} ->
             IF item.type = "folder" THEN <<>> ELSE <<item_path>>

\* the activation returns at once: ceiling, visited path, system directory
enter_returns(kind, f, max_depth, seen) ==
    \/ ceiling_hit(kind, f.depth, max_depth)
    \/ kind = "walk" /\ f.path \in seen
    \/ kind = "tree" /\ is_windows_system_path(f.path)

\* what entering the activation records or yields
enter_output(kind, f, max_depth, history) ==
    CASE kind = "explore" -> <<[path |-> f.path, history |-> history]>>
      [] kind = "tree" ->
             <<[name |-> Basename(f.path),
                type |-> IF ~depth_reached(f.depth, max_depth)
                            /\ is_windows_system_path(f.path)
                         THEN "system_directory" ELSE "directory",
                depth |-> f.depth]>>
      [] kind \in {"walk", "structure", "count", "bytes", "types", "find", "content",
                    "scan"} -> <<>>

\* the listing of the activation: <<success, items>>
frame_listing(kind, h, d, path) ==
    IF kind \in ListingKinds
    THEN The({ <<lr[1], SubSeq(lr[2], 1, Len(lr[2]))>> :
                 lr \in {list_directory(h, d, path)} })
    ELSE The({ <<TRUE, SubSeq([i \in 1..Len(names) |->
                                  [name |-> names[i], type |-> "entry"]],
                              1, Len(names))>> :
                 names \in {safe_windows_listdir(d, path)} })

WalkStarts ==
    {RootC, DirUsers, DirWindows, RootC \o <<"n","o","p","e">>,
     RootC \o <<"*">>}
WalkParams(kind) ==
    IF kind = "tree" THEN {<<2, <<"*">>>>, <<5, <<"*">>>>}
    ELSE IF kind = "find" THEN BOOLEAN \X FindPatterns
    ELSE IF kind = "structure" THEN {<<5, <<"*">>>>, <<5, <<"*", ".", "T", "x", "t">>>>}
    ELSE {<<5, <<"*">>>>}

InitWalk ==
    /\ host \in Hosts
    /\ cwd = RootC
    /\ tv_kind \in WalkKinds
    /\ \/ fs = WalkImage /\ arg \in WalkStarts
       \/ fs = LoopImage /\ arg = LoopRoot
       \/ fs = FindImage /\ arg = DirF /\ tv_kind = "find"
    /\ arg2 \in WalkParams(tv_kind)
    /\ fn = "none"
    /\ res = <<>>
    /\ tv_pc = "idle" /\ tv_stack = <<>> /\ tv_out = <<>> /\ tv_seen = {}
    /\ MainIdle
    /\ ChainIdle

Top == tv_stack[Len(tv_stack)]
Popped == SubSeq(tv_stack, 1, Len(tv_stack) - 1)
AfterPop == IF Len(tv_stack) = 1 THEN "done" ELSE "run"

\* the outer function: count_files, analyze_windows_file_types and
\* find_files_windows validate their argument first, the others make the
\* first call at once
WalkStart ==
    /\ tv_pc = "idle"
    /\ tv_kind \in WalkKinds
    /\ IF tv_kind \in {"count", "bytes", "types", "find"}
          /\ ~validate_windows_path(host, arg)[1]
       THEN tv_pc' = "done" /\ tv_stack' = <<>>
       ELSE tv_pc' = "run" /\ tv_stack' = <<Frame(arg, 0, <<>>)>>
    /\ UNCHANGED <<tv_kind, tv_out, tv_seen>>
    /\ UNCHANGED <<envVars, libVars, mainVars, histVars, chainVars>>

\* analysis.count_files(path)[0]: False for a path that is not valid, True
\* after the count (list_directory raises nothing)
count_files_success(h, path) == validate_windows_path(h, path)[1]

\* find_files_windows, lines 55-67: what is printed after the traversal.  The
\* test 'success and depth == 0' reads a name that exists only inside
\* search_recursive, so it raises NameError whenever the count succeeded;
\* the handler prints SEARCH_ERROR
find_summary_output(h, path) ==
    IF ~validate_windows_path(h, path)[1] THEN <<"PATH_ERROR">>
    ELSE IF count_files_success(h, path) THEN <<"SEARCH_ERROR">>
    ELSE <<>>

\* a handler that gives up the matches when the summary has failed
results_discarded(results, printed) ==
    IF "SEARCH_ERROR" \in Range(printed) THEN <<>> ELSE results

\* find_files_windows, lines 66-69: the list returned after the handler
results_returned(results, printed) == results

\* after the traversal: count_files and count_bytes return their totals,
\* analyze_windows_file_types computes the percentages and returns,
\* find_files_windows prints its summary and returns results
WalkSummary ==
    /\ tv_pc = "done"
    /\ tv_kind \in {"count", "bytes", "types", "find"}
    /\ fn = "none"
    /\ CASE tv_kind = "count" ->
              /\ fn' = "count_files"
              /\ res' = <<count_files_success(host, arg), Len(tv_out)>>
              /\ out' = <<>>
         [] tv_kind = "bytes" ->
              /\ fn' = "count_bytes"
              /\ res' = <<count_files_success(host, arg), total_of(tv_out)>>
              /\ out' = <<>>
         [] tv_kind = "types" ->
              /\ fn' = "analyze_windows_file_types"
              /\ res' = analyze_windows_file_types(host, arg, tv_out)
              /\ out' = <<>>
         [] tv_kind = "find" ->
              /\ fn' = "find_files_windows"
              /\ out' = find_summary_output(host, arg)
              /\ res' = results_returned(tv_out, find_summary_output(host, arg))
    /\ UNCHANGED <<envVars, arg, arg2, histVars, chainVars, walkVars>>
    /\ UNCHANGED <<pc, current_path, command, confirm, offered, exit_status>>

WalkEnter ==
    /\ tv_pc = "run"
    /\ Top.at = "enter"
    /\ tv_out' = tv_out \o enter_output(tv_kind, Top, arg2[1],
                                        history_entered(Top.history, Top.path))
    /\ IF enter_returns(tv_kind, Top, arg2[1], tv_seen)
       THEN /\ tv_stack' = Popped
            /\ tv_pc' = AfterPop
            /\ tv_seen' = tv_seen
       ELSE /\ tv_stack' =
                  [tv_stack EXCEPT ![Len(tv_stack)].at = "list",
                                   ![Len(tv_stack)].history =
                                       IF tv_kind = "explore"
                                       THEN history_entered(@, Top.path) ELSE @]
            /\ tv_pc' = "run"
            /\ tv_seen' = IF tv_kind = "walk" THEN tv_seen \cup {Top.path} ELSE tv_seen
    /\ UNCHANGED <<tv_kind, envVars, libVars, mainVars, histVars, chainVars>>

WalkList ==
    /\ tv_pc = "run"
    /\ Top.at = "list"
    /\ \E lr \in {frame_listing(tv_kind, host, cwd, Top.path)} :
          IF lr[1]
          THEN /\ tv_stack' = [tv_stack EXCEPT ![Len(tv_stack)].at = "loop",
                                               ![Len(tv_stack)].items = lr[2]]
               /\ tv_pc' = "run"
          ELSE /\ tv_stack' = Popped
               /\ tv_pc' = AfterPop
    /\ UNCHANGED <<tv_kind, tv_out, tv_seen>>
    /\ UNCHANGED <<envVars, libVars, mainVars, histVars, chainVars>>

WalkItem ==
    /\ tv_pc = "run"
    /\ Top.at = "loop"
    /\ Top.idx <= Len(Top.items)
    /\ \E item \in {Top.items[Top.idx]} :
          \E item_path \in {Join(Top.path, item.name)} :
             /\ tv_out' = tv_out \o item_output(tv_kind, host, cwd, Top.depth,
                                                item, item_path, arg2)
             /\ tv_stack' =
                   IF descends(tv_kind, cwd, item.type, item_path)
                   THEN Append([tv_stack EXCEPT ![Len(tv_stack)].idx = @ + 1],
                               Frame(item_path, Top.depth + 1,
                                     history_passed(tv_kind, Top.history)))
                   ELSE [tv_stack EXCEPT ![Len(tv_stack)].idx = @ + 1]
    /\ UNCHANGED <<tv_kind, tv_pc, tv_seen>>
    /\ UNCHANGED <<envVars, libVars, mainVars, histVars, chainVars>>

WalkReturn ==
    /\ tv_pc = "run"
    /\ Top.at = "loop"
    /\ Top.idx > Len(Top.items)
    /\ tv_stack' = Popped
    /\ tv_pc' = AfterPop
    /\ UNCHANGED <<tv_kind, tv_out, tv_seen>>
    /\ UNCHANGED <<envVars, libVars, mainVars, histVars, chainVars>>

NextWalk ==
    WalkStart \/ WalkEnter \/ WalkList \/ WalkItem \/ WalkReturn \/ WalkSummary

SpecWalkFair == InitWalk /\ [][NextWalk]_vars /\ WF_vars(NextWalk)

\* path b lies below the directory path a
IsUnder(b, a) ==
    /\ Len(b) > Len(a)
    /\ SubSeq(b, 1, Len(a)) = a
    /\ (a[Len(a)] = Sep \/ b[Len(a) + 1] = Sep)

\* path b is an entry of the directory path a
IsChildOf(b, a) ==
    /\ IsUnder(b, a)
    /\ \A i \in (Len(a) + 2)..Len(b) : b[i] # Sep

\* the folders of the second tree that recursive_path_explorer can reach from
\* start: below it, on no system path, on a host where list_directory works
ReachableFolders(h, start) ==
    IF validate_windows_path(h, start)[1]
    THEN {EntryPath(WalkEntries[i]) :
            i \in {j \in 1..Len(WalkEntries) :
                     /\ WalkEntries[j].kind = "dir"
                     /\ IsUnder(EntryPath(WalkEntries[j]), start)
                     /\ ~is_windows_system_path(EntryPath(WalkEntries[j]))}}
    ELSE {}

\* C14: recursive_path_explorer yields the start path first and then folders
\* below it in depth-first pre-order: every later yield is an entry of an
\* earlier one and everything yielded in between lies below that one; it
\* yields no subfolder on a system path; it yields no path twice; and when it
\* ends it has yielded every folder it can reach.
C14_ExplorePreOrder ==
    tv_kind = "explore" =>
        /\ tv_out # <<>> => tv_out[1].path = arg
        /\ tv_pc \in {"run", "done"} /\ (tv_pc = "run" => Top.at # "enter")
               => tv_out # <<>>
        /\ \A k \in 2..Len(tv_out) :
              /\ \E i \in 1..(k - 1) :
                    /\ IsChildOf(tv_out[k].path, tv_out[i].path)
                    /\ \A j \in (i + 1)..(k - 1) :
                          IsUnder(tv_out[j].path, tv_out[i].path)
              /\ ~is_windows_system_path(tv_out[k].path)
              /\ \A i \in 1..(k - 1) : tv_out[i].path # tv_out[k].path
        /\ tv_pc = "done" /\ arg # LoopRoot =>
              {tv_out[k].path : k \in 1..Len(tv_out)}
                  = {arg} \cup ReachableFolders(host, arg)

\* a finished exploration of the drive root that has yielded five folders
C14_Witness ==
    /\ tv_kind = "explore"
    /\ tv_pc = "done"
    /\ arg = RootC
    /\ Len(tv_out) = 6
    /\ tv_out[3].path = WalkU
    /\ tv_out[6].path = DirTemp

\* the deepest activation a traversal with a ceiling can make
DeepestFrame(kind, max_depth) ==
    CASE kind = "walk" -> 101
      [] kind = "tree" -> IF max_depth > 0 THEN max_depth ELSE 0
      [] kind = "structure" -> 11
      [] kind \in {"count", "bytes", "types", "find"} -> 21
      [] kind = "content" -> 11
      [] kind = "scan" -> 6

Frames == {tv_stack[i] : i \in 1..Len(tv_stack)}

\* every activation of a traversal with a ceiling is within one level of it,
\* and only activations below the ceiling list a directory
WithinCeiling ==
    tv_kind \in WalkKinds \ {"explore"} =>
        \A i \in 1..Len(tv_stack) :
            /\ tv_stack[i].depth = i - 1
            /\ tv_stack[i].depth <= DeepestFrame(tv_kind, arg2[1])
            /\ tv_stack[i].at # "enter" =>
                   ~ceiling_hit(tv_kind, tv_stack[i].depth, arg2[1])

\* recursive_path_explorer has no ceiling: it is held by the length of the
\* path alone, because list_directory refuses a path of more than 260
\* characters and every level makes the path longer
WithinPathLength ==
    tv_kind = "explore" =>
        \A i \in 1..Len(tv_stack) :
            /\ i < Len(tv_stack) =>
                  /\ Len(tv_stack[i].path) <= 260
                  /\ Len(tv_stack[i + 1].path) > Len(tv_stack[i].path)
            /\ tv_stack[i].at = "loop" => Len(tv_stack[i].path) <= 260

\* the unrolled cycle is deeper than any traversal goes
InsideUnrolling ==
    \A i \in 1..Len(tv_stack) :
        Len(tv_stack[i].path) < Len(LoopPath(LoopDepth)) - 2

\* C15 as stated: every traversal, the explorer included, is bounded by a
\* depth ceiling (the deepest one in the code is the 100 of safe_file_walk)
C15_DepthCeilingEverywhere ==
    tv_kind \in WalkKinds => Len(tv_stack) <= 100 + 2

\* C15: every recursive traversal terminates, also on a directory that links
\* back to its parent; safe_file_walk, build_windows_tree_recursive,
\* analyze_windows_structure_recursive and the list_directory recursions of
\* analysis and search are bounded by their depth ceiling, while
\* recursive_path_explorer, which has none, is bounded by the 260-character
\* limit of the paths list_directory accepts.
C15_TraversalsTerminate ==
    /\ <>(tv_pc = "done")
    /\ [](WithinCeiling /\ WithinPathLength /\ InsideUnrolling)

\* a walk over the cyclic directory has ended after yielding a file at each of
\* its 101 levels
C15_Witness ==
    /\ tv_pc = "done"
    /\ arg = LoopRoot
    /\ tv_kind = "walk"
    /\ Len(tv_out) = 101

\* os.listdir(path) raises: the directory is missing or its listing is denied
os_listdir_fails(d, path) ==
    \/ ~IsDir(d, path)
    \/ FsKey(d, path) \in fs.denied

\* the nodes analyze_windows_structure_recursive has enumerated: the root and
\* every directory it has recursed into
EnumeratedNodes ==
    {arg} \cup {tv_out[i][3] :
                  i \in {j \in 1..Len(tv_out) :
                           tv_out[j][2] \in {"DIR", "HID_DIR"} /\ tv_out[j][1] < 10}}

ErrorEntries(path) ==
    {i \in 1..Len(tv_out) : tv_out[i][2] = "ERROR" /\ tv_out[i][3] = path}

\* C16 as stated: when analyze_windows_structure_recursive has ended, every
\* node whose enumeration failed (directory missing or listing denied) has
\* exactly one ERROR entry in the result.
C16_ErrorEntryPerFailure ==
    tv_kind = "structure" /\ tv_pc = "done" =>
        \A p \in EnumeratedNodes :
            os_listdir_fails(cwd, p) => Cardinality(ErrorEntries(p)) = 1

\* ---------------------------------------------------------------------
\* analysis.find_duplicate_files_recursive
\* ---------------------------------------------------------------------
\* analysis.safe_file_walk as a function: the files walk_recursive yields
\* below cur_path and the set of visited paths it leaves behind
RECURSIVE walk_recursive(_, _, _, _)
RECURSIVE walk_items(_, _, _, _, _, _)
walk_recursive(d, cur_path, cur_depth, visited) ==
    IF cur_depth > 100 \/ cur_path \in visited
    THEN [out |-> <<>>, seen |-> visited]
    ELSE walk_items(d, cur_path, cur_depth,
                    safe_windows_listdir(d, cur_path), 1,
                    [out |-> <<>>, seen |-> visited \cup {cur_path}])

walk_items(d, cur_path, cur_depth, items, i, acc) ==
    IF i > Len(items) THEN acc
    ELSE walk_items(d, cur_path, cur_depth, items, i + 1,
            The({ IF IsDir(d, item_path)
                  THEN The({ [out |-> acc.out \o sub.out, seen |-> sub.seen] :
                               sub \in {walk_recursive(d, item_path,
                                                       cur_depth + 1, acc.seen)} })
                  ELSE IF IsFile(d, item_path)
                  THEN [out |-> Append(acc.out, item_path), seen |-> acc.seen]
                  ELSE acc :
               item_path \in {Join(cur_path, items[i])} }))

safe_file_walk(d, path) == walk_recursive(d, path, 0, {}).out

\* analysis.get_windows_file_attributes, the 'system' attribute: the attribute
\* bit where kernel32 exists, a guess from the name elsewhere, False when
\* os.stat fails
system_attribute(h, d, file_path) ==
    \E k \in {FsKey(d, file_path)} :
        /\ k \notin fs.nostat
        /\ IF is_windows_os(h)
           THEN k \in fs.system
           ELSE Contains(Lower(file_path), <<"s","y","s","t","e","m">>)

\* hashlib.md5 of the bytes of the file: a digest that tells contents apart
md5(content) == <<"md5", content>>

\* open(file_path, 'rb') raises
open_fails(d, file_path) == FsKey(d, file_path) \in fs.locked

\* the filter of the return statement
keeps_any(paths) == TRUE

keeps_group(paths) == Len(paths) > 1

\* the body of the loop over the files: acc is <<duplicates, visited>>
duplicates_step(h, d, acc, file_path) ==
    IF file_path \in acc[2] THEN acc
    ELSE IF ~validate_windows_path(h, file_path)[1] THEN acc
    ELSE IF system_attribute(h, d, file_path) THEN acc
    ELSE IF open_fails(d, file_path) THEN acc
    ELSE The({ << [x \in DOMAIN acc[1] \cup {file_hash} |->
                     IF x = file_hash
                     THEN (IF x \in DOMAIN acc[1] THEN acc[1][x] ELSE <<>>)
                             \o <<file_path>>
                     ELSE acc[1][x]],
                  acc[2] \cup {file_path} >> :
               file_hash \in {md5(fs.content[FsKey(d, file_path)])} })

RECURSIVE duplicates_loop(_, _, _, _, _)
duplicates_loop(h, d, files, i, acc) ==
    IF i > Len(files) THEN acc
    ELSE duplicates_loop(h, d, files, i + 1, duplicates_step(h, d, acc, files[i]))

find_duplicate_files_recursive(h, d, path) ==
    The({ [hash_val \in {x \in DOMAIN duplicates : keeps_group(duplicates[x])} |->
             duplicates[hash_val]] :
          duplicates \in {duplicates_loop(h, d, safe_file_walk(d, path), 1,
                                          << <<>>, {} >>)[1]} })

\* A folder with three files and a subfolder named "system" with a fourth.
\* The contents of the files, whether the fourth carries the system attribute
\* and whether the third can be opened vary.
NSystem == <<"s","y","s","t","e","m">>
DirD == RootC \o <<"D">>
DirDSystem == DirD \o <<Sep>> \o NSystem
Contents == {<<"x">>, <<"y">>}
DupVariants == [c : [1..4 -> Contents], sys : BOOLEAN, locked : BOOLEAN]
DupEntries ==
    << DupEntry(RootC, <<"D">>, "dir"),
       DupEntry(DirD, <<"a",".","t","x","t">>, "file"),
       DupEntry(DirD, <<"b",".","t","x","t">>, "file"),
       DupEntry(DirD, <<"c",".","t","x","t">>, "file"),
       DupEntry(DirD, NSystem, "dir"),
       DupEntry(DirDSystem, <<"d",".","t","x","t">>, "file") >>
DupFile(n) == EntryPath(DupEntries[IF n = 4 THEN 6 ELSE n + 1])
DupFiles == {DupFile(n) : n \in 1..4}
DupImage(v) ==
    The({ [dirs |-> im.dirs, files |-> im.files, list |-> im.list,
           hidden |-> im.hidden, denied |-> im.denied,
           nostat  |-> {},
           content |-> [k \in im.files |->
                          v.c[CHOOSE n \in 1..4 : Lower(DupFile(n)) = k]],
           system  |-> IF v.sys THEN {Lower(DupFile(4))} ELSE {},
           locked  |-> IF v.locked THEN {Lower(DupFile(3))} ELSE {}] :
          im \in {ImageOf(DupEntries, FsRoots)} })
DupRoots == {DirD, DirDSystem, RootC \o <<"n","o","p","e">>}

InitDup ==
    /\ fs \in {DupImage(v) : v \in DupVariants}
    /\ host \in Hosts
    /\ cwd = RootC
    /\ fn = "none"
    /\ arg \in DupRoots
    /\ arg2 = <<>>
    /\ res = <<>>
    /\ MainIdle
    /\ ChainIdle
    /\ WalkIdle

CallDup ==
    /\ fn = "none"
    /\ fn' = "find_duplicate_files_recursive"
    /\ res' = find_duplicate_files_recursive(host, cwd, arg)
    /\ UNCHANGED <<envVars, arg, arg2, mainVars, histVars, chainVars, walkVars>>

SpecDup == InitDup /\ [][CallDup]_vars

\* the files below the root that were hashed: the host is supported, the file
\* is not flagged system and can be read
Checksum(p) == md5(fs.content[Lower(p)])
Hashed ==
    {p \in DupFiles :
        /\ IsUnder(p, arg)
        /\ is_windows_os(host)
        /\ Lower(p) \notin fs.system
        /\ Lower(p) \notin fs.locked}
Grouped == UNION {Range(res[x]) : x \in DOMAIN res}

\* C17: in the mapping find_duplicate_files_recursive returns every group has
\* at least two (different) paths, all paths of the group have the checksum
\* the group is filed under, two hashed paths with the same checksum are in
\* the same group, and no file with a unique checksum, with the system flag,
\* or that could not be read is in any group; three files of identical
\* content and one different one give exactly one group of size 3.
C17_DuplicateGroups ==
    fn = "find_duplicate_files_recursive" =>
        /\ \A x \in DOMAIN res :
              /\ Len(res[x]) >= 2
              /\ \A i, j \in 1..Len(res[x]) : res[x][i] = res[x][j] => i = j
              /\ \A i \in 1..Len(res[x]) :
                    res[x][i] \in Hashed /\ Checksum(res[x][i]) = x
        /\ \A p, q \in Hashed :
              p # q /\ Checksum(p) = Checksum(q) =>
                 /\ Checksum(p) \in DOMAIN res
                 /\ {p, q} \subseteq Range(res[Checksum(p)])
        /\ \A p \in DupFiles :
              \/ \A q \in Hashed \ {p} : Checksum(q) # Checksum(p)
              \/ Lower(p) \in fs.system
              \/ Lower(p) \in fs.locked
              => p \notin Grouped
        /\ /\ arg = DirD /\ is_windows_os(host)
           /\ fs.system = {} /\ fs.locked = {}
           /\ Checksum(DupFile(1)) = Checksum(DupFile(2))
           /\ Checksum(DupFile(2)) = Checksum(DupFile(3))
           /\ Checksum(DupFile(4)) # Checksum(DupFile(1))
           => /\ Cardinality(DOMAIN res) = 1
              /\ \A x \in DOMAIN res : Len(res[x]) = 3
              /\ DupFile(4) \notin Grouped

\* three identical files and a different one in the subfolder: one group of 3
C17_Witness ==
    /\ fn = "find_duplicate_files_recursive"
    /\ arg = DirD
    /\ fs.system = {} /\ fs.locked = {}
    /\ DOMAIN res = {md5(<<"x">>)}
    /\ res[md5(<<"x">>)] = <<DupFile(1), DupFile(2), DupFile(3)>>
    /\ Checksum(DupFile(4)) = md5(<<"y">>)

\* ---------------------------------------------------------------------
\* analysis.analyze_file_dependencies_recursive
\* ---------------------------------------------------------------------
target_extensions ==
    {<<".","c","p","p">>, <<".","h">>, <<".","h","p","p">>, <<".","c">>,
     <<".","p","y">>, <<".","j","s">>, <<".","t","s">>,
     <<".","j","a","v","a">>}

\* The text of a file is a list of lines; a line is the word it begins with
\* and the name that follows.  The pattern of an extension picks the lines
\* that begin with one of its words: the key is the extension as written.
pattern_words(ext) ==
    IF ext \in {<<".","c">>, <<".","c","p","p">>, <<".","h">>, <<".","h","p","p">>}
    THEN {"#include"}
    ELSE IF ext = <<".","p","y">> THEN {"import", "from"}
    ELSE IF ext \in {<<".","j","s">>, <<".","t","s">>} THEN {"import", "require"}
    ELSE IF ext = <<".","j","a","v","a">> THEN {"import"}
    ELSE {}

\* find_dependencies(filepath): the names the pattern finds, in order
find_dependencies(d, filepath) ==
    IF open_fails(d, filepath) THEN <<>>
    ELSE The({ The({ [i \in 1..Len(found) |-> found[i].name] :
                     found \in {Pick(text, {i \in 1..Len(text) :
                                  text[i].word \in pattern_words(splitext(filepath))})} }) :
               text \in {fs.content[FsKey(d, filepath)]} })

\* the loop over the walked files: tree is <<keys in insertion order, deps>>
RECURSIVE dependency_loop(_, _, _, _)
dependency_loop(d, files, i, tree) ==
    IF i > Len(files) THEN tree
    ELSE dependency_loop(d, files, i + 1,
            IF Lower(splitext(files[i])) \in target_extensions
               /\ files[i] \notin Range(tree[1])
            THEN The({ IF deps # <<>>
                       THEN << Append(tree[1], files[i]),
                               [f \in DOMAIN tree[2] \cup {files[i]} |->
                                  IF f = files[i] THEN deps ELSE tree[2][f]] >>
                       ELSE tree :
                     deps \in {find_dependencies(d, files[i])} })
            ELSE tree)

\* [f for f in dependency_tree.keys() if dep in f], for every dep in order
RECURSIVE matching_files(_, _, _)
matching_files(tree, deps, i) ==
    IF i > Len(deps) THEN <<>>
    ELSE Pick(tree[1], {k \in 1..Len(tree[1]) : Contains(tree[1][k], deps[i])})
            \o matching_files(tree, deps, i + 1)

\* the test that finds a cycle
on_path_never(node, path) == FALSE

on_path(node, path) == node \in Range(path)

\* dfs(node, path): st is [visited, cycles]
RECURSIVE dfs(_, _, _, _)
RECURSIVE dfs_matches(_, _, _, _, _)
dfs(tree, node, path, st) ==
    IF on_path(node, path)
    THEN [st EXCEPT !.cycles =
             Append(@, SubSeq(path, CHOOSE i \in 1..Len(path) :
                                       path[i] = node
                                       /\ \A j \in 1..(i - 1) : path[j] # node,
                              Len(path)) \o <<node>>)]
    ELSE IF node \in st.visited THEN st
    ELSE IF node \in DOMAIN tree[2]
    THEN dfs_matches(tree, path \o <<node>>,
                     matching_files(tree, tree[2][node], 1), 1,
                     [st EXCEPT !.visited = @ \cup {node}])
    ELSE [st EXCEPT !.visited = @ \cup {node}]

dfs_matches(tree, path, matches, i, st) ==
    IF i > Len(matches) THEN st
    ELSE dfs_matches(tree, path, matches, i + 1, dfs(tree, matches[i], path, st))

RECURSIVE dfs_all(_, _, _)
dfs_all(tree, i, st) ==
    IF i > Len(tree[1]) THEN st
    ELSE dfs_all(tree, i + 1, dfs(tree, tree[1][i], <<>>, st))

analyze_file_dependencies_recursive(d, root_path) ==
    The({ The({ [tree |-> tree[2],
                 cycles |-> Range(cycles),
                 files_count |-> Len(tree[1]),
                 has_cycles |-> Len(cycles) > 0] :
                cycles \in {dfs_all(tree, 1, [visited |-> {}, cycles |-> <<>>]).cycles} }) :
          tree \in {dependency_loop(d, safe_file_walk(d, root_path), 1,
                                    << <<>>, <<>> >>)} })

\* A folder with the sources a.py, b.py and q.py, listed in any order, and
\* N.PY.  A name is one letter, so "a" is found in the path of a.py only.
DirP == RootC \o <<"P">>
DepNames == <<"a", "b", "q">>
DepFile(n) == DirP \o <<Sep, DepNames[n], ".", "p", "y">>
DepUpper == DirP \o <<Sep, "N", ".", "P", "Y">>
Line(word, name) == [word |-> word, name |-> name]
DepTexts ==
    { <<>>,
      <<Line("import", <<"a">>)>>,
      <<Line("from", <<"b">>)>>,
      <<Line("import", <<"q">>)>>,
      <<Line("import", <<"z">>)>>,
      <<Line("import", <<"b">>), Line("print", <<"a">>), Line("from", <<"q">>)>>,
      <<Line("#include", <<"a">>)>> }
DepOrders == {o \in [1..3 -> 1..3] : \A i, j \in 1..3 : o[i] = o[j] => i = j}
DepVariants == [ord : DepOrders, text : [1..3 -> DepTexts]]
DepEntries(v) ==
    << DupEntry(RootC, <<"P">>, "dir"),
       DupEntry(DirP, Basename(DepFile(v.ord[1])), "file"),
       DupEntry(DirP, Basename(DepUpper), "file"),
       DupEntry(DirP, Basename(DepFile(v.ord[2])), "file"),
       DupEntry(DirP, Basename(DepFile(v.ord[3])), "file") >>
DepImage(v) ==
    The({ [dirs |-> im.dirs, files |-> im.files, list |-> im.list,
           hidden |-> im.hidden, denied |-> im.denied,
           nostat  |-> {},
           content |-> [k \in im.files |->
                          IF k = Lower(DepUpper) THEN <<Line("import", <<"a">>)>>
                          ELSE v.text[CHOOSE n \in 1..3 : Lower(DepFile(n)) = k]],
           system  |-> {},
           locked  |-> {}] :
          im \in {ImageOf(DepEntries(v), FsRoots)} })

InitDeps ==
    /\ fs \in {DepImage(v) : v \in DepVariants}
    /\ host = "Windows"
    /\ cwd = RootC
    /\ fn = "none"
    /\ arg \in {DirP, RootC}
    /\ arg2 = <<>>
    /\ res = <<>>
    /\ MainIdle
    /\ ChainIdle
    /\ WalkIdle

CallDeps ==
    /\ fn = "none"
    /\ fn' = "analyze_file_dependencies_recursive"
    /\ res' = analyze_file_dependencies_recursive(cwd, arg)
    /\ UNCHANGED <<envVars, arg, arg2, mainVars, histVars, chainVars, walkVars>>

SpecDeps == InitDeps /\ [][CallDeps]_vars

\* the reference strings of a source as its text gives them
ImportNames(n) ==
    {fs.content[Lower(DepFile(n))][i].name :
        i \in {j \in 1..Len(fs.content[Lower(DepFile(n))]) :
                 fs.content[Lower(DepFile(n))][j].word \in {"import", "from"}}}
RefersTo(m, n) == \E r \in ImportNames(m) : Contains(DepFile(n), r)

\* C18: whenever two analysed files A and B are such that a reference string
\* of A is found in the path of B and a reference string of B is found in the
\* path of A, analyze_file_dependencies_recursive returns has_cycles = True
\* and a non-empty list of cycles, whatever the third file refers to and in
\* whatever order the files are listed.
C18_MutualReferenceIsCycle ==
    fn = "analyze_file_dependencies_recursive" =>
        \A m, n \in 1..3 :
            m # n /\ RefersTo(m, n) /\ RefersTo(n, m) =>
                res.has_cycles /\ res.cycles # {}

\* a.py is listed first and refers to b.py and q.py, b.py refers to a.py and
\* q.py to nothing of the folder: the cycle a, b, a is reported
C18_Witness ==
    /\ fn = "analyze_file_dependencies_recursive"
    /\ safe_windows_listdir(cwd, DirP)[1] = Basename(DepFile(1))
    /\ RefersTo(1, 2) /\ RefersTo(2, 1) /\ RefersTo(1, 3)
    /\ ImportNames(3) = {<<"z">>}
    /\ res.has_cycles
    /\ <<DepFile(1), DepFile(2), DepFile(1)>> \in res.cycles
    /\ res.files_count = 3

\* A folder T with an archive, a name without extension, a file that cannot
\* be stat'ed and a folder e of three files whose extensions vary
TypeExts == { <<".","p","d","f">>, <<".","j","p","g">>, <<".","x","y","z">>, <<".","P","D","F">>, <<>>, <<".","j","p","e","g">> }
TypeVariants == [1..3 -> TypeExts]
DirT == RootC \o <<"T">>
DirTE == DirT \o <<Sep, "e">>
TypeEntries(v) ==
    << DupEntry(RootC, <<"T">>, "dir"),
       DupEntry(DirT, <<"A",".","T","A","R",".","G","Z">>, "file"),
       DupEntry(DirT, <<".","p","r","o","f","i","l","e">>, "file"),
       [DupEntry(DirT, <<"g",".","t","m","p">>, "file") EXCEPT !.stat_ok = FALSE],
       DupEntry(DirT, <<"e">>, "dir"),
       DupEntry(DirTE, <<"r">> \o v[1], "file"),
       DupEntry(DirTE, <<"i">> \o v[2], "file"),
       DupEntry(DirTE, <<"o">> \o v[3], "file") >>
TypeImage(v) == ImageOf(TypeEntries(v), FsRoots)

InitTypes ==
    /\ host \in Hosts
    /\ cwd = RootC
    /\ \/ fs \in {TypeImage(v) : v \in TypeVariants} /\ arg \in {DirT, DirTE}
       \/ fs = WalkImage /\ arg \in WalkStarts
       \/ fs = LoopImage /\ arg = LoopRoot
    /\ tv_kind = "types"
    /\ arg2 \in WalkParams(tv_kind)
    /\ fn = "none"
    /\ res = <<>>
    /\ tv_pc = "idle" /\ tv_stack = <<>> /\ tv_out = <<>> /\ tv_seen = {}
    /\ MainIdle
    /\ ChainIdle

SpecTypes == InitTypes /\ [][NextWalk]_vars

\* The files of the tree that can be enumerated from the root without error
\* within the depth cap: entries of a listing that can be stat'ed, below the
\* root, in a folder at most 20 levels below it (folders whose listing fails
\* have no entries in the image, and a root that is no folder has none)
AllEntries == UNION {Range(fs.list[k]) : k \in DOMAIN fs.list}
FolderDepth(p) ==
    Count(SubSeq(p, Len(arg) + 1, Len(p)), Sep)
        - (IF arg[Len(arg)] = Sep THEN 0 ELSE 1)
Countable ==
    {e \in AllEntries :
        /\ e.kind = "file"
        /\ e.stat_ok
        /\ IsUnder(EntryPath(e), arg)
        /\ FolderDepth(EntryPath(e)) <= 20
        /\ \A a \in AllEntries :
              a.kind = "dir" /\ IsUnder(EntryPath(e), EntryPath(a))
                 /\ IsUnder(EntryPath(a), arg) => a.stat_ok}
CategoryOfExtension(ext) ==
    CASE ext \in {<<".","j","p","g">>, <<".","j","p","e","g">>, <<".","p","n","g">>, <<".","g","i","f">>} -> "Image"
      [] ext \in {<<".","z","i","p">>, <<".","r","a","r">>, <<".","7","z">>, <<".","t","a","r">>, <<".","g","z">>} -> "Archive"
      [] ext = <<".","p","d","f">> -> "PDF document"
      [] ext = <<".","t","x","t">> -> "Text file"
      [] ext = <<".","e","x","e">> -> "Executable file"
      [] ext = <<".","d","l","l">> -> "Dynamic library"
      [] ext = <<".","l","o","g">> -> "Log file"
      [] ext = <<".","i","n","i">> -> "Configuration file"
      [] ext = <<".","s","y","s">> -> "System file"
      [] ext = <<".","t","m","p">> -> "Temporary file"
      [] OTHER -> "Other"
InCategory(c) ==
    {e \in Countable : CategoryOfExtension(Lower(splitext(e.name))) = c}

\* C19: on a valid root analyze_windows_file_types counts every file that can
\* be enumerated without error within the depth cap in exactly one category,
\* the table category of its lower-cased extension or Other; entries that
\* fail during the enumeration are in no count; the percentage of a category
\* is 100 * count / total of the counted files; one .pdf, one .jpg and one
\* .xyz file give PDF document, Image and Other with count 1 each.
C19_FileTypeCounts ==
    fn = "analyze_windows_file_types" /\ validate_windows_path(host, arg)[1] =>
        /\ res[1]
        /\ DOMAIN res[2] = {c \in {row[2] : row \in windows_extensions} \cup {"Other"} :
                               InCategory(c) # {}}
        /\ \A c \in DOMAIN res[2] :
              /\ res[2][c].count = Cardinality(InCategory(c))
              /\ res[2][c].percentage[1] * Cardinality(Countable)
                    = 100 * res[2][c].count * res[2][c].percentage[2]
        /\ SumOfCounts(res[2]) = Cardinality(Countable)
        /\ /\ fs = TypeImage([n \in 1..3 |-> <<<<".","p","d","f">>, <<".","j","p","g">>, <<".","x","y","z">>>>[n]])
           /\ arg = DirTE
           => /\ DOMAIN res[2] = {"PDF document", "Image", "Other"}
              /\ \A c \in DOMAIN res[2] :
                    res[2][c].count = 1 /\ res[2][c].percentage = <<100, 3>>

\* the folder with r.pdf, i.jpg and o.xyz has been analysed
C19_Witness ==
    /\ fn = "analyze_windows_file_types"
    /\ arg = DirTE
    /\ fs = TypeImage([n \in 1..3 |-> <<<<".","p","d","f">>, <<".","j","p","g">>, <<".","x","y","z">>>>[n]])
    /\ res[1]
    /\ DOMAIN res[2] = {"PDF document", "Image", "Other"}
    /\ res[2]["Image"].count = 1
    /\ res[2]["Image"].extensions = {<<".","j","p","g">>}
    /\ res[2]["Image"].percentage = <<100, 3>>

\* C20 as stated: find_files_windows on a valid root returns, with
\* case_sensitive = False, the files whose case-folded name matches the
\* case-folded pattern; with case_sensitive = True nothing is case-folded, so
\* a file whose name does not match the pattern as written is not returned.
C20_CaseFolding ==
    fn = "find_files_windows" /\ validate_windows_path(host, arg)[1] =>
        \A e \in Countable :
            IF arg2[1]
            THEN EntryPath(e) \in Range(res) => fnmatchcase(e.name, arg2[2])
            ELSE EntryPath(e) \in Range(res)
                    <=> fnmatchcase(Lower(e.name), Lower(arg2[2]))

\* ---------------------------------------------------------------------
\* search.recursive_content_search: search_in_file
\* ---------------------------------------------------------------------
\* The bytes of a file are numbers, the characters of a decoded text are code
\* points.  The bytes used: LF, 'A', 'a', 0xB0, 0xD0, 0xE0.
Newline == 10
IsContinuation(b) == b >= 128 /\ b < 192

\* the UTF-8 decoder from position i: <<ok, text>>.  A byte sequence that is
\* not UTF-8 raises under "strict" and is dropped under "ignore".
RECURSIVE utf8_from(_, _, _)
utf8_from(bytes, i, errors) ==
    IF i > Len(bytes) THEN <<TRUE, <<>>>>
    ELSE IF bytes[i] < 128
    THEN The({ <<r[1], <<bytes[i]>> \o r[2]>> : r \in {utf8_from(bytes, i + 1, errors)} })
    ELSE IF bytes[i] = 208 /\ i + 1 <= Len(bytes) /\ IsContinuation(bytes[i + 1])
    THEN The({ <<r[1], <<(bytes[i] - 192) * 64 + (bytes[i + 1] - 128)>> \o r[2]>> :
               r \in {utf8_from(bytes, i + 2, errors)} })
    ELSE IF bytes[i] = 224 /\ i + 2 <= Len(bytes)
            /\ bytes[i + 1] >= 160 /\ bytes[i + 1] < 192
            /\ IsContinuation(bytes[i + 2])
    THEN The({ <<r[1], <<(bytes[i + 1] - 128) * 64 + (bytes[i + 2] - 128)>> \o r[2]>> :
               r \in {utf8_from(bytes, i + 3, errors)} })
    ELSE IF errors = "strict" THEN <<FALSE, <<>>>>
    ELSE \* the invalid or truncated sequence is skipped
         utf8_from(bytes,
                   IF bytes[i] = 224 /\ i + 1 <= Len(bytes)
                      /\ bytes[i + 1] >= 160 /\ bytes[i + 1] < 192
                   THEN i + 2 ELSE i + 1,
                   errors)

\* the single-byte code pages on the bytes used
cp1251(b) == IF b < 128 THEN b ELSE IF b = 176 THEN 176
             ELSE IF b = 208 THEN 1056 ELSE 1072
cp866(b) == IF b < 128 THEN b ELSE IF b = 176 THEN 9617
            ELSE IF b = 208 THEN 9576 ELSE 1088

encodings == <<"utf-8", "cp1251", "cp866", "latin-1">>

\* bytes.decode(encoding, errors): <<ok, text>>
decode(encoding, bytes, errors) ==
    CASE encoding = "utf-8" -> utf8_from(bytes, 1, errors)
      [] encoding = "cp1251" -> <<TRUE, [i \in 1..Len(bytes) |-> cp1251(bytes[i])]>>
      [] encoding = "cp866" -> <<TRUE, [i \in 1..Len(bytes) |-> cp866(bytes[i])]>>
      [] encoding = "latin-1" -> <<TRUE, bytes>>

\* the content the loop over the encodings ends with: that of the first
\* encoding whose decoder does not raise
RECURSIVE first_decoded(_, _, _)
first_decoded(bytes, k, errors) ==
    IF k > Len(encodings) THEN <<FALSE, <<>>>>
    ELSE The({ IF r[1] THEN r ELSE first_decoded(bytes, k + 1, errors) :
               r \in {decode(encodings[k], bytes, errors)} })

\* str.lower on code points: Latin and Cyrillic capitals
LowerCode(c) ==
    IF c >= 65 /\ c <= 90 THEN c + 32
    ELSE IF c >= 1040 /\ c <= 1071 THEN c + 32
    ELSE c
LowerText(t) == [i \in 1..Len(t) |-> LowerCode(t[i])]

\* content.split('\n'): the lines, numbered from 1
LineCount(text) == Cardinality({i \in 1..Len(text) : text[i] = Newline}) + 1
LineOf(text, n) ==
    The({ SubSeq(text, b[1] + 1, b[2] - 1) :
          b \in { << IF n = 1 THEN 0
                     ELSE CHOOSE i \in 1..Len(text) :
                            /\ text[i] = Newline
                            /\ Cardinality({j \in 1..i : text[j] = Newline}) = n - 1,
                     IF n = LineCount(text) THEN Len(text) + 1
                     ELSE CHOOSE i \in 1..Len(text) :
                            /\ text[i] = Newline
                            /\ Cardinality({j \in 1..i : text[j] = Newline}) = n >> } })
matching_lines(text, search_pattern) ==
    Pick([n \in 1..LineCount(text) |-> n],
         {n \in 1..LineCount(text) :
             Contains(LowerText(LineOf(text, n)), LowerText(search_pattern))})

\* search_in_file for a file that is not in the cache: the file is opened
\* with errors='ignore'
search_in_file(bytes, search_pattern) ==
    The({ IF ~content[1] THEN <<>>
          ELSE matching_lines(content[2], search_pattern) :
        content \in {first_decoded(bytes, 1, "ignore")} })

FileBytes == {10, 65, 97, 176, 208, 224}
MaxFileLen == 3
FileContents == UNION {[1..n -> FileBytes] : n \in 1..MaxFileLen}
SearchPatterns == {<<97>>, <<1072>>, <<1088>>}

InitContent ==
    /\ fs = FsImage
    /\ host \in Hosts
    /\ cwd = RootC
    /\ fn = "none"
    /\ arg \in FileContents
    /\ arg2 \in SearchPatterns
    /\ res = <<>>
    /\ MainIdle
    /\ ChainIdle
    /\ WalkIdle

CallSearchInFile ==
    /\ fn = "none"
    /\ fn' = "search_in_file"
    /\ res' = search_in_file(arg, arg2)
    /\ UNCHANGED <<envVars, arg, arg2, mainVars, histVars, chainVars, walkVars>>

SpecContent == InitContent /\ [][CallSearchInFile]_vars

\* C21 as stated: search_in_file uses the content decoded by the first of
\* utf-8, cp1251, cp866, latin-1 that decodes the file without error; for a
\* file that is not valid UTF-8 it returns the numbers of the lines that
\* contain the pattern as the first later encoding decodes them.
C21_EncodingFallback ==
    fn = "search_in_file" =>
        res = matching_lines(first_decoded(arg, 1, "strict")[2], arg2)

\* ---------------------------------------------------------------------
\* search.search_menu_handler, called by main.handle_windows_search
\* ---------------------------------------------------------------------
\* float(s) of a stripped line, as far as the handler looks at it: "error"
\* for a ValueError, else whether the number is positive.  Lines are an
\* optional minus sign and digits.
float_sign(s) ==
    The({ IF ~IsDigit(digits)
          THEN "error"
          ELSE IF s[1] = "-" \/ \A i \in 1..Len(digits) : digits[i] = "0"
          THEN "not positive"
          ELSE "positive" :
        digits \in {IF s # <<>> /\ s[1] = "-" THEN SubSeq(s, 2, Len(s)) ELSE s} })

\* the branches that go back to the menu with 'continue'
option_continues_or_invalid(choice, answer) ==
    \/ choice \in {<<"1">>, <<"2">>} /\ Strip(answer) = <<>>
    \/ choice = <<"3">> /\ float_sign(Strip(answer)) = "not positive"
    \/ choice \notin {<<"1">>, <<"2">>, <<"3">>, <<"4">>, <<"5">>, <<"6">>}

option_continues(choice, answer) ==
    \/ choice \in {<<"1">>, <<"2">>} /\ Strip(answer) = <<>>
    \/ choice = <<"3">> /\ float_sign(Strip(answer)) = "not positive"

\* what the branch of the choice prints or calls
option_output(choice, answer) ==
    CASE choice = <<"1">> ->
             IF Strip(answer) = <<>> THEN <<"PATTERN_EMPTY">>
             ELSE <<"find_files_windows">>
      [] choice = <<"2">> ->
             IF Strip(answer) = <<>> THEN <<"EXTENSIONS_EMPTY">>
             ELSE <<"find_by_windows_extension">>
      [] choice = <<"3">> ->
             CASE float_sign(Strip(answer)) = "error" -> <<"INVALID_NUMBER_FORMAT">>
               [] float_sign(Strip(answer)) = "not positive" -> <<"INVALID_SIZE">>
               [] OTHER -> <<"find_large_files_windows">>
      [] choice = <<"4">> -> <<"find_windows_system_files">>
      [] choice = <<"5">> -> <<"show_windows_directory_stats">>
      [] choice = <<"6">> -> <<>>
      [] OTHER -> <<"INVALID_CHOICE">>

\* the choices that read a further line
OptionReads(choice) == choice \in {<<"1">>, <<"2">>, <<"3">>}

MenuLines == {<<"1">>, <<" ", "2">>, <<"3">>, <<"4">>, <<"5">>, <<"6">>, <<"7">>, <<>>}
AnswerLines == {<<>>, <<" ">>, <<"*", ".", "t", "x", "t">>, <<"0">>, <<"5">>,
                <<"-", "1">>, <<"x">>}
ContinueLines == {<<"y">>, <<"Y">>, <<" ", "y">>, <<"n">>, <<>>}
SearchPcs == {"sm_menu", "sm_choice", "sm_prompt"}

InitSearchMenu ==
    /\ fs = FsImage
    /\ host \in Hosts
    /\ cwd = RootC
    /\ LibIdle
    /\ ChainIdle
    /\ WalkIdle
    /\ pc = "idle" /\ current_path \in {RootC, DirUsers} /\ command = <<"3">>
    /\ confirm = <<>> /\ offered = <<>> /\ out = <<>> /\ exit_status = <<>>
    /\ at = "idle" /\ event = "none" /\ iter_path = <<>> /\ scenario = <<>>

\* handle_windows_search, lines 249-252: the call
SearchMenuEnter ==
    /\ pc = "idle"
    /\ command = <<"3">>
    /\ pc' = "sm_menu"
    /\ out' = <<"SEARCH_MENU", "STARTING_SEARCH">>
    /\ at' = pc /\ event' = "enter"
    /\ UNCHANGED <<envVars, libVars, chainVars, walkVars, current_path, command,
                   confirm, offered, exit_status, iter_path, scenario>>

\* search_menu_handler, lines 239-252: the menu and the choice
SearchMenuShow ==
    /\ pc = "sm_menu"
    /\ \E line \in MenuLines : command' = Strip(line)
    /\ pc' = "sm_choice"
    /\ out' = <<"SEARCH_MENU_TITLE", "CURRENT_PATH", "CHOOSE_OPTION">>
    /\ confirm' = <<>>
    /\ at' = pc /\ event' = "menu"
    /\ UNCHANGED <<envVars, libVars, chainVars, walkVars, current_path, offered,
                   exit_status, iter_path, scenario>>

\* search_menu_handler, lines 254-331: the branch of the choice
SearchMenuOption ==
    /\ pc = "sm_choice"
    /\ \E answer \in IF OptionReads(command) THEN AnswerLines ELSE {<<>>} :
          /\ confirm' = answer
          /\ out' = option_output(command, answer)
          /\ pc' = IF command = <<"6">> THEN "sm_returned"
                   ELSE IF option_continues(command, answer) THEN "sm_menu"
                   ELSE "sm_prompt"
    /\ res' = IF command = <<"6">> THEN <<TRUE>> ELSE res
    /\ at' = pc /\ event' = "option"
    /\ UNCHANGED <<envVars, fn, arg, arg2, chainVars, walkVars, current_path,
                   command, offered, exit_status, iter_path, scenario>>

\* search_menu_handler, lines 333-336: the continue/stop prompt
SearchMenuPrompt ==
    /\ pc = "sm_prompt"
    /\ \E line \in ContinueLines :
          /\ confirm' = Lower(line)
          /\ pc' = IF Lower(line) # <<"y">> THEN "sm_returned" ELSE "sm_menu"
          /\ res' = IF Lower(line) # <<"y">> THEN <<TRUE>> ELSE res
    /\ out' = <<"CONTINUE_SEARCH">>
    /\ at' = pc /\ event' = "prompt"
    /\ UNCHANGED <<envVars, fn, arg, arg2, chainVars, walkVars, current_path,
                   command, offered, exit_status, iter_path, scenario>>

\* an input() of the handler raises (EOFError, KeyboardInterrupt): nothing in
\* the handler or its caller catches it
SearchMenuInterrupt ==
    /\ pc \in SearchPcs
    /\ pc = "sm_choice" => OptionReads(command)
    /\ pc' = "sm_raised"
    /\ out' = <<>>
    /\ at' = pc /\ event' = "interrupt"
    /\ UNCHANGED <<envVars, libVars, chainVars, walkVars, current_path, command,
                   confirm, offered, exit_status, iter_path, scenario>>

\* handle_windows_search, lines 252-254: after the handler has returned
SearchMenuLeave ==
    /\ pc = "sm_returned"
    /\ pc' = "sm_done"
    /\ out' = IF res = <<FALSE>> THEN <<"RETURN_MAIN_MENU">> ELSE <<>>
    /\ at' = pc /\ event' = "leave"
    /\ UNCHANGED <<envVars, libVars, chainVars, walkVars, current_path, command,
                   confirm, offered, exit_status, iter_path, scenario>>

NextSearchMenu ==
    \/ SearchMenuEnter \/ SearchMenuShow \/ SearchMenuOption
    \/ SearchMenuPrompt \/ SearchMenuInterrupt \/ SearchMenuLeave

SpecSearchMenu == InitSearchMenu /\ [][NextSearchMenu]_vars

\* C22 as stated: the menu is presented again only after the continue/stop
\* prompt has been shown, and the handler returns only through option 6 or
\* an answer other than 'y' to the prompt.
C22_PromptBeforeMenu ==
    [][/\ pc' = "sm_menu" /\ pc # "idle" => pc = "sm_prompt"
       /\ pc' = "sm_returned" =>
             \/ pc = "sm_choice" /\ command = <<"6">>
             \/ pc = "sm_prompt" /\ confirm' # <<"y">>]_vars

\* C22: a pass of search_menu_handler in which option 4 or 5, an invalid
\* choice, option 1 or 2 with a non-empty answer or option 3 with anything
\* but a number that is not positive is entered shows the continue/stop
\* prompt before the menu is presented again; option 1 or 2 with an empty
\* answer and option 3 with a number that is not positive present the menu
\* again at once.  The handler returns only through option 6 or an answer
\* other than 'y' (in any case) to the prompt, and what it returns is always
\* True, so its caller never prints RETURN_MAIN_MENU.
C22_SearchMenuPasses ==
    [][/\ pc' = "sm_menu" /\ pc # "idle" =>
             \/ pc = "sm_prompt" /\ confirm' = <<"y">>
             \/ /\ pc = "sm_choice"
                /\ \/ command \in {<<"1">>, <<"2">>} /\ Strip(confirm') = <<>>
                   \/ command = <<"3">>
                      /\ Strip(confirm') \in {<<"0">>, <<"-", "1">>}
       /\ pc = "sm_choice" /\ pc' \notin {"sm_menu", "sm_raised"}
             /\ command # <<"6">> => pc' = "sm_prompt"
       /\ pc' = "sm_returned" =>
             /\ \/ pc = "sm_choice" /\ command = <<"6">>
                \/ pc = "sm_prompt" /\ confirm' # <<"y">>
             /\ res' = <<TRUE>>
       /\ pc' = "sm_done" => out' = <<>>
       /\ pc = "sm_choice" /\ out' = <<"INVALID_CHOICE">> => pc' = "sm_prompt"]_vars

\* the menu has come back after an empty pattern, without the prompt
C22_Witness ==
    /\ pc = "sm_menu"
    /\ at = "sm_choice"
    /\ command = <<"1">>
    /\ out = <<"PATTERN_EMPTY">>

\* ---------------------------------------------------------------------
\* analysis.find_largest_files
\* ---------------------------------------------------------------------
\* os.path.getsize(file_path) raises OSError
getsize_fails(d, file_path) == FsKey(d, file_path) \in fs.nostat

getsize(d, file_path) == fs.size[FsKey(d, file_path)]

\* the record appended for a file; sizes of the image are below 1024
largest_entry(d, file_path) ==
    [path |-> file_path,
     name |-> Basename(file_path),
     size |-> getsize(d, file_path),
     size_str |-> format_size(<<getsize(d, file_path), 0, 0, 0, 0>>)]

as_appended(list) == list

\* list.sort(key=lambda x: x['size'], reverse=True): a stable sort, records
\* of equal size keep their order
sorted_by_size(list) ==
    The({ SubSeq([k \in 1..Len(l) |->
                    l[CHOOSE i \in 1..Len(l) :
                        k = 1 + Cardinality({j \in 1..Len(l) : l[j].size > l[i].size})
                              + Cardinality({j \in 1..(i - 1) : l[j].size = l[i].size})]],
                 1, Len(l)) :
          l \in {list} })

\* largest_files[:limit], a negative limit counting from the end
slice_to(list, limit) ==
    IF limit >= 0
    THEN SubSeq(list, 1, IF limit < Len(list) THEN limit ELSE Len(list))
    ELSE SubSeq(list, 1, IF Len(list) + limit > 0 THEN Len(list) + limit ELSE 0)

\* the body of the loop over the walked files
largest_step(d, largest_files, file_path, limit) ==
    IF getsize_fails(d, file_path) THEN largest_files
    ELSE The({ IF Len(sorted) > limit THEN slice_to(sorted, limit) ELSE sorted :
               sorted \in {sorted_by_size(
                              Append(largest_files, largest_entry(d, file_path)))} })

RECURSIVE largest_loop(_, _, _, _, _)
largest_loop(d, files, i, limit, largest_files) ==
    IF i > Len(files) THEN largest_files
    ELSE largest_loop(d, files, i + 1, limit,
                      largest_step(d, largest_files, files[i], limit))

find_largest_files(d, path, limit) ==
    largest_loop(d, safe_file_walk(d, path), 1, limit, <<>>)

\* The folder of the duplicate search with a size for each of the four files;
\* the size of the second cannot always be read.
MaxSize == 3
MaxLimit == 3
SizeVariants == [s : [1..4 -> 1..MaxSize], nostat : BOOLEAN]
SizeImage(v) ==
    The({ [dirs |-> im.dirs, files |-> im.files, list |-> im.list,
           hidden |-> im.hidden, denied |-> im.denied,
           nostat |-> IF v.nostat THEN {Lower(DupFile(2))} ELSE {},
           size   |-> [k \in im.files |->
                         v.s[CHOOSE n \in 1..4 : Lower(DupFile(n)) = k]]] :
          im \in {ImageOf(DupEntries, FsRoots)} })

InitLargest ==
    /\ fs \in {SizeImage(v) : v \in SizeVariants}
    /\ host \in Hosts
    /\ cwd = RootC
    /\ fn = "none"
    /\ arg \in DupRoots
    /\ arg2 \in {<<limit>> : limit \in (0 - 1)..MaxLimit}
    /\ res = <<>>
    /\ MainIdle
    /\ ChainIdle
    /\ WalkIdle

CallLargest ==
    /\ fn = "none"
    /\ fn' = "find_largest_files"
    /\ res' = find_largest_files(cwd, arg, arg2[1])
    /\ UNCHANGED <<envVars, arg, arg2, mainVars, histVars, chainVars, walkVars>>

SpecLargest == InitLargest /\ [][CallLargest]_vars

\* the files below the root whose size can be read
Sized == {p \in DupFiles : IsUnder(p, arg) /\ Lower(p) \notin fs.nostat}
SizeOf(p) == fs.size[Lower(p)]
Reported == {res[i].path : i \in 1..Len(res)}

\* C23: find_largest_files(root, limit) with limit >= 0 returns at most limit
\* records, of different walked files whose size could be read, each with
\* the size of its file, in descending order of size; a readable walked file
\* is left out only when the result holds limit records, and then its size
\* is at most the smallest size of the result.
C23_LargestFiles ==
    fn = "find_largest_files" /\ arg2[1] >= 0 =>
        /\ Len(res) <= arg2[1]
        /\ \A i \in 1..Len(res) :
              /\ res[i].path \in Sized
              /\ res[i].size = SizeOf(res[i].path)
        /\ \A i, j \in 1..Len(res) :
              /\ i < j => res[i].size >= res[j].size
              /\ res[i].path = res[j].path => i = j
        /\ \A p \in Sized \ Reported :
              /\ Len(res) = arg2[1]
              /\ \A i \in 1..Len(res) : SizeOf(p) <= res[i].size

\* two of four files are returned, the larger first, and a file as large as
\* the smaller one is left out
C23_Witness ==
    /\ fn = "find_largest_files"
    /\ arg = DirD
    /\ arg2 = <<2>>
    /\ Len(res) = 2
    /\ res[1].size = 3 /\ res[2].size = 2
    /\ res[1].path = DupFile(4)
    /\ \E p \in Sized \ Reported : SizeOf(p) = 2

\* ---------------------------------------------------------------------
\* analysis.predict_storage_growth_recursive
\* ---------------------------------------------------------------------
\* Python's numbers where the function divides: exact fractions <<n, d>> in
\* lowest terms with d > 0 (the code uses floating point)
Abs(n) == IF n < 0 THEN 0 - n ELSE n
Rat(n, d) ==
    The({ <<(sg[1] * n) \div sg[2], (sg[1] * d) \div sg[2]>> :
          sg \in {<<IF d < 0 THEN 0 - 1 ELSE 1, Gcd(Abs(n), Abs(d))>>} })
RatAdd(p, q) == Rat(p[1] * q[2] + q[1] * p[2], p[2] * q[2])
RatSub(p, q) == Rat(p[1] * q[2] - q[1] * p[2], p[2] * q[2])
RatMul(p, q) == Rat(p[1] * q[1], p[2] * q[2])
RatDiv(p, q) == Rat(p[1] * q[2], p[2] * q[1])
RECURSIVE RatSum(_, _)
RatSum(qs, i) == IF i > Len(qs) THEN <<0, 1>> ELSE RatAdd(qs[i], RatSum(qs, i + 1))

Day == 86400
MB == 1048576
DaysBack == 30

\* time.time() of the call
Now == 100 * Day
cutoff_time(days_back) == Now - days_back * Day

\* os.stat(file_path) raises
stat_fails(d, file_path) ==
    \/ ~Exists(d, file_path)
    \/ FsKey(d, file_path) \in fs.nostat

\* the record appended for a stat result (its 'date' repeats 'time')
growth_sample(d, file_path) ==
    [time |-> fs.mtime[FsKey(d, file_path)], size |-> fs.size[FsKey(d, file_path)]]

\* growth_data[file_path].append(sample): a plain dict without the key
\* raises KeyError, a defaultdict makes the list
growth_append(growth_data, file_path, sample) ==
    IF file_path \in DOMAIN growth_data.data
    THEN [growth_data EXCEPT !.data[file_path] = Append(@, sample)]
    ELSE IF growth_data.default
    THEN [default |-> TRUE,
          data |-> [f \in DOMAIN growth_data.data \cup {file_path} |->
                      IF f = file_path THEN <<sample>> ELSE growth_data.data[f]]]
    ELSE growth_data

\* collect_file_data: an exception leaves growth_data as it is
collect_file_data(d, growth_data, file_path, days_back) ==
    IF stat_fails(d, file_path) THEN growth_data
    ELSE IF growth_sample(d, file_path).time >= cutoff_time(days_back)
    THEN growth_append(growth_data, file_path, growth_sample(d, file_path))
    ELSE growth_data

RECURSIVE collect_loop(_, _, _, _, _)
collect_loop(d, files, i, growth_data, days_back) ==
    IF i > Len(files) THEN growth_data
    ELSE collect_loop(d, files, i + 1,
                      collect_file_data(d, growth_data, files[i], days_back),
                      days_back)

\* os.path.splitext(file_name)[0]
splitext_root(file_name) ==
    SubSeq(file_name, 1, Len(file_name) - Len(splitext(file_name)))

backup_patterns(file_name) ==
    << file_name \o <<".","b","a","k">>,
       file_name \o <<".","o","l","d">>,
       file_name \o <<".","b","a","c","k","u","p">>,
       <<"b","a","c","k","u","p","_">> \o file_name,
       splitext_root(file_name) \o <<"_","*",".">> \o splitext(file_name) >>

\* glob.glob(os.path.join(dir_path, pattern)) for a pattern in the last
\* component: the path itself when the pattern has no wildcard and the path
\* exists, else the entries of the directory that match (names with a
\* leading dot only for a pattern with a leading dot)
has_magic(pattern) == \E i \in 1..Len(pattern) : pattern[i] \in {"*", "?", "["}
glob(h, d, dir_path, pattern) ==
    IF ~has_magic(pattern)
    THEN IF Exists(d, Join(dir_path, pattern))
         THEN <<Join(dir_path, pattern)>> ELSE <<>>
    ELSE The({ SubSeq([k \in 1..Len(hit) |-> Join(dir_path, hit[k])], 1, Len(hit)) :
               hit \in {SelectSeq(safe_windows_listdir(d, dir_path),
                          LAMBDA name :
                             /\ fnmatch(h, name, pattern)
                             /\ name[1] = "." => pattern[1] = ".")} })

\* the loop over the files found for one pattern
RECURSIVE backup_files_loop(_, _, _, _, _, _)
backup_files_loop(d, growth_data, file_path, found, i, days_back) ==
    IF i > Len(found) THEN growth_data
    ELSE backup_files_loop(d,
            IF ~stat_fails(d, found[i])
               /\ growth_sample(d, found[i]).time < cutoff_time(days_back)
            THEN growth_append(growth_data, file_path, growth_sample(d, found[i]))
            ELSE growth_data,
            file_path, found, i + 1, days_back)

\* the loop over the backup patterns of one file
RECURSIVE backup_patterns_loop(_, _, _, _, _, _, _)
backup_patterns_loop(h, d, growth_data, file_path, patterns, i, days_back) ==
    IF i > Len(patterns) THEN growth_data
    ELSE backup_patterns_loop(h, d,
            backup_files_loop(d, growth_data, file_path,
                              glob(h, d, Dirname(file_path), patterns[i]), 1,
                              days_back),
            file_path, patterns, i + 1, days_back)

\* the second loop: backups are looked for where fewer than 3 samples exist
with_backups(h, d, growth_data, days_back) ==
    [default |-> growth_data.default,
     data |-> [f \in DOMAIN growth_data.data |->
                 IF Len(growth_data.data[f]) < 3
                 THEN backup_patterns_loop(h, d, growth_data, f,
                                           backup_patterns(Basename(f)), 1,
                                           days_back).data[f]
                 ELSE growth_data.data[f]]]

\* data.sort(key=lambda x: x['time']): stable, ascending
sorted_by_time(data) ==
    The({ SubSeq([k \in 1..Len(l) |->
                    l[CHOOSE i \in 1..Len(l) :
                        k = 1 + Cardinality({j \in 1..Len(l) : l[j].time < l[i].time})
                              + Cardinality({j \in 1..(i - 1) : l[j].time = l[i].time})]],
                 1, Len(l)) :
          l \in {data} })

times_of(data) ==
    SubSeq([i \in 1..Len(data) |-> Rat(data[i].time - data[1].time, Day)], 1, Len(data))
sizes_mb_of(data) ==
    SubSeq([i \in 1..Len(data) |-> Rat(data[i].size, MB)], 1, Len(data))
products(xs, ys) ==
    SubSeq([i \in 1..Len(xs) |-> RatMul(xs[i], ys[i])], 1, Len(xs))

\* n * sum_x2 - sum_x * sum_x
denominator(xs) ==
    RatSub(RatMul(<<Len(xs), 1>>, RatSum(products(xs, xs), 1)),
           RatMul(RatSum(xs, 1), RatSum(xs, 1)))

\* n * sum_xy - sum_x * sum_y
numerator(xs, ys) ==
    RatSub(RatMul(<<Len(xs), 1>>, RatSum(products(xs, ys), 1)),
           RatMul(RatSum(xs, 1), RatSum(ys, 1)))

min_samples_two(data) == Len(data) >= 2

\* len(data) >= 3
min_samples(data) == Len(data) >= 3

\* the last loop sorts the samples of every file with enough of them
sorted_data(growth_data) ==
    [f \in DOMAIN growth_data.data |->
        IF min_samples(growth_data.data[f])
        THEN sorted_by_time(growth_data.data[f])
        ELSE growth_data.data[f]]

\* the last loop: the slope of every file with enough samples and a
\* denominator other than 0
predictions_of(sorted) ==
    [f \in {g \in DOMAIN sorted :
              /\ min_samples(sorted[g])
              /\ denominator(times_of(sorted[g])) # <<0, 1>>} |->
        RatDiv(numerator(times_of(sorted[f]), sizes_mb_of(sorted[f])),
               denominator(times_of(sorted[f])))]

\* the dictionary returned, and growth_data as the call leaves it
predict_storage_growth_recursive(h, d, path, days_back, growth_data) ==
    The({ [predictions |-> predictions_of(sorted), growth_data |-> sorted] :
          sorted \in {sorted_data(with_backups(h, d,
                          collect_loop(d, safe_file_walk(d, path), 1,
                                       growth_data, days_back),
                          days_back))} })

\* A folder G with a.txt, two backups of it, a file that only looks like a
\* backup (a_1.txt: the fifth pattern is a_*..txt), one that is (a_1..txt)
\* and b.txt without backups.  The times and sizes of a.txt and its two
\* backups vary in steps of half a day and half a megabyte.
DirG == RootC \o <<"G">>
GrowthNames ==
    << <<"a",".","t","x","t">>,
       <<"a",".","t","x","t",".","b","a","k">>,
       <<"a",".","t","x","t",".","o","l","d">>,
       <<"b",".","t","x","t">>,
       <<"a","_","1",".","t","x","t">>,
       <<"a","_","1",".",".","t","x","t">> >>
GrowthFile(n) == DirG \o <<Sep>> \o GrowthNames[n]
GoneFile == DirG \o <<Sep>> \o <<"g",".","t","x","t">>
HalfDay == Day \div 2
HalfMB == MB \div 2
GrowthTimes == {136, 138, 140}
GrowthSizes == <<{2, 6}, {2, 4}, {4, 6}>>
GrowthVariants ==
    [t : [1..3 -> GrowthTimes],
     s : {f \in [1..3 -> {2, 4, 6}] : \A n \in 1..3 : f[n] \in GrowthSizes[n]},
     extra : BOOLEAN]
GrowthEntries(v) ==
    << DupEntry(RootC, <<"G">>, "dir") >>
    \o SubSeq([n \in 1..6 |-> DupEntry(DirG, GrowthNames[n], "file")],
              1, IF v.extra THEN 6 ELSE 5)
GrowthImage(v) ==
    The({ [dirs |-> im.dirs, files |-> im.files, list |-> im.list,
           hidden |-> im.hidden, denied |-> im.denied,
           nostat |-> {},
           mtime  |-> [k \in im.files |->
                         HalfDay * (IF \E n \in 1..3 : Lower(GrowthFile(n)) = k
                                    THEN v.t[CHOOSE n \in 1..3 : Lower(GrowthFile(n)) = k]
                                    ELSE IF k = Lower(GrowthFile(4)) THEN 150
                                    ELSE 134)],
           size   |-> [k \in im.files |->
                         HalfMB * (IF \E n \in 1..3 : Lower(GrowthFile(n)) = k
                                   THEN v.s[CHOOSE n \in 1..3 : Lower(GrowthFile(n)) = k]
                                   ELSE 3)]] :
          im \in {ImageOf(GrowthEntries(v), FsRoots)} })
Sample(t, s) == [time |-> HalfDay * t, size |-> HalfMB * s]
\* growth_data as passed: None, or a dictionary of earlier samples
GrowthData ==
    { [default |-> TRUE, data |-> <<>>],
      [default |-> TRUE, data |-> [f \in {GrowthFile(1)} |-> <<Sample(134, 3)>>]],
      [default |-> TRUE, data |-> [f \in {GrowthFile(1)} |->
                                     <<Sample(132, 6), Sample(130, 2)>>]],
      [default |-> TRUE, data |-> [f \in {GoneFile} |->
                                     <<Sample(120, 2), Sample(120, 4), Sample(120, 6)>>]],
      [default |-> FALSE, data |-> [f \in {GoneFile} |->
                                     <<Sample(124, 6), Sample(120, 2), Sample(122, 4)>>]] }

InitGrowth ==
    /\ fs \in {GrowthImage(v) : v \in GrowthVariants}
    /\ host \in Hosts
    /\ cwd = RootC
    /\ fn = "none"
    /\ arg \in {DirG, RootC \o <<"n","o","p","e">>}
    /\ arg2 \in GrowthData
    /\ res = <<>>
    /\ MainIdle
    /\ ChainIdle
    /\ WalkIdle

CallGrowth ==
    /\ fn = "none"
    /\ fn' = "predict_storage_growth_recursive"
    /\ res' = predict_storage_growth_recursive(host, cwd, arg, DaysBack, arg2)
    /\ UNCHANGED <<envVars, arg, arg2, mainVars, histVars, chainVars, walkVars>>

SpecGrowth == InitGrowth /\ [][CallGrowth]_vars

\* The samples of a file in half days since its earliest sample and in half
\* megabytes, and the two sides of the least-squares quotient over them
HalfDays(f) ==
    [i \in 1..Len(res.growth_data[f]) |->
        (res.growth_data[f][i].time
           - res.growth_data[f][CHOOSE j \in 1..Len(res.growth_data[f]) :
                 \A k \in 1..Len(res.growth_data[f]) :
                    res.growth_data[f][j].time <= res.growth_data[f][k].time].time)
        \div HalfDay]
HalfMBs(f) == [i \in 1..Len(res.growth_data[f]) |-> res.growth_data[f][i].size \div HalfMB]
RECURSIVE SumOver(_, _, _)
SumOver(xs, ys, i) == IF i = 0 THEN 0 ELSE xs[i] * ys[i] + SumOver(xs, ys, i - 1)
Ones(f) == [i \in 1..Len(res.growth_data[f]) |-> 1]
SamplesOf(f) == Len(res.growth_data[f])
LsqDenominator(f) ==
    SamplesOf(f) * SumOver(HalfDays(f), HalfDays(f), SamplesOf(f))
      - SumOver(HalfDays(f), Ones(f), SamplesOf(f)) * SumOver(HalfDays(f), Ones(f), SamplesOf(f))
LsqNumerator(f) ==
    SamplesOf(f) * SumOver(HalfDays(f), HalfMBs(f), SamplesOf(f))
      - SumOver(HalfDays(f), Ones(f), SamplesOf(f)) * SumOver(HalfMBs(f), Ones(f), SamplesOf(f))

\* C24: predict_storage_growth_recursive returns an entry exactly for the
\* files with at least 3 samples whose least-squares denominator
\* n*sum(x^2) - (sum x)^2 is not 0, and the entry is
\* (n*sum(xy) - sum(x)*sum(y)) / (n*sum(x^2) - (sum x)^2), x in days since
\* the earliest sample and y in megabytes; samples at days 0, 1, 2 of 1, 2
\* and 3 MB give the slope 1, and a file with 2 samples has no entry.
C24_GrowthSlope ==
    fn = "predict_storage_growth_recursive" =>
        /\ DOMAIN res.predictions \subseteq DOMAIN res.growth_data
        /\ \A f \in DOMAIN res.growth_data :
              /\ f \in DOMAIN res.predictions
                   <=> SamplesOf(f) >= 3 /\ LsqDenominator(f) # 0
              /\ f \in DOMAIN res.predictions =>
                    /\ res.predictions[f][2] > 0
                    /\ res.predictions[f][1] * LsqDenominator(f)
                         = LsqNumerator(f) * res.predictions[f][2]
              /\ /\ SamplesOf(f) = 3
                 /\ {<<HalfDays(f)[i], HalfMBs(f)[i]>> : i \in 1..3}
                      = {<<0, 2>>, <<2, 4>>, <<4, 6>>}
                 => res.predictions[f] = <<1, 1>>
              /\ SamplesOf(f) = 2 => f \notin DOMAIN res.predictions

\* a.txt of 3 MB on day 70 with backups of 1 MB on day 68 and 2 MB on day 69
\* has the slope 1; b.txt, with its one sample, has no entry
C24_Witness ==
    /\ fn = "predict_storage_growth_recursive"
    /\ arg = DirG
    /\ arg2.data = <<>>
    /\ GrowthFile(1) \in DOMAIN res.predictions
    /\ res.growth_data[GrowthFile(1)]
         = <<Sample(136, 2), Sample(138, 4), Sample(140, 6)>>
    /\ res.predictions[GrowthFile(1)] = <<1, 1>>
    /\ GrowthFile(4) \in DOMAIN res.growth_data
    /\ GrowthFile(4) \notin DOMAIN res.predictions

\* ---------------------------------------------------------------------
\* main.main: the current path of the main loop
\* ---------------------------------------------------------------------
\* C25: when the directory the process is started in passes
\* validate_windows_path, the current path of the main loop passes it after
\* every sequence of commands, failed moves, invalid numbers, empty answers,
\* drive changes and special-folder jumps included.
C25_CurrentPathValid ==
    validate_windows_path(host, cwd)[1] /\ current_path # <<>> =>
        validate_windows_path(host, current_path)[1]

\* started in a directory two characters short of the limit, the process has
\* moved into its subdirectory with the longest valid path
C25_Witness ==
    /\ validate_windows_path(host, cwd)[1]
    /\ cwd = LongDir
    /\ current_path = LongChild
    /\ command = <<"6">>
    /\ event = "return"
    /\ "MOVED_TO" \in Range(out)

\* ---------------------------------------------------------------------
\* utils.resolve_long_paths_recursive applied to its own result
\* ---------------------------------------------------------------------
\* C27 as stated: resolve_long_paths_recursive is idempotent, resolving the
\* result of a call again returns that result.
C27_ResolveIdempotent ==
    fn = "resolve_long_paths_recursive" =>
        resolve_long_paths_recursive(res, LongPrefix) = res

DepEdges ==
    {fg \in (DOMAIN res.tree) \X (DOMAIN res.tree) :
        \E i \in 1..Len(res.tree[fg[1]]) : Contains(fg[2], res.tree[fg[1]][i])}
Composed(rel) ==
    rel \cup {ac \in (DOMAIN res.tree) \X (DOMAIN res.tree) :
                \E b \in DOMAIN res.tree : <<ac[1], b>> \in rel /\ <<b, ac[2]>> \in rel}
DepPaths == Composed(Composed(DepEdges))

\* C26: has_cycles is true exactly when the graph on the keys of the
\* adjacency map, with an edge f -> g whenever a reference string of f is a
\* substring of the path g, has a directed cycle, a file that refers to
\* itself included; and every reported cycle starts and ends with the same
\* file and goes along edges of that graph.
C26_CyclesIffGraphCycle ==
    fn = "analyze_file_dependencies_recursive" =>
        /\ (res.has_cycles <=> (\E f \in DOMAIN res.tree : <<f, f>> \in DepPaths))
        /\ (res.has_cycles <=> (res.cycles # {}))
        /\ \A c \in res.cycles :
              /\ Len(c) >= 2
              /\ c[1] = c[Len(c)]
              /\ \A i \in 1..(Len(c) - 1) : <<c[i], c[i + 1]>> \in DepEdges

\* a.py refers to itself and to nothing else, the other two files refer to
\* each other through q.py's text only: the self-loop is the one cycle
C26_Witness ==
    /\ fn = "analyze_file_dependencies_recursive"
    /\ arg = DirP
    /\ ImportNames(1) = {<<"a">>}
    /\ ImportNames(2) = {<<"z">>}
    /\ ImportNames(3) = {<<"b">>}
    /\ <<DepFile(3), DepFile(2)>> \in DepEdges
    /\ res.has_cycles
    /\ res.cycles = {<<DepFile(1), DepFile(1)>>}

\* ---------------------------------------------------------------------
\* analysis.count_files, count_bytes and analyze_windows_file_types
\* ---------------------------------------------------------------------
\* the bytes of the countable files of the tree, each byte counted once
CountableBytes ==
    Cardinality(UNION {{<<e, k>> : k \in 1..fs.size[Lower(EntryPath(e))]} :
                         e \in Countable})

\* C29: on one filesystem and one valid root the three aggregations agree:
\* count_files returns the number of countable files and count_bytes the sum
\* of their sizes, and the per-category counts of analyze_windows_file_types
\* add up to the first and its per-category total sizes to the second.
C29_AggregationsAgree ==
    validate_windows_path(host, arg)[1] =>
        /\ fn = "count_files" => res = <<TRUE, Cardinality(Countable)>>
        /\ fn = "count_bytes" => res = <<TRUE, CountableBytes>>
        /\ fn = "analyze_windows_file_types" =>
              /\ res[1]
              /\ SumOfCounts(res[2]) = Cardinality(Countable)
              /\ SumOfSizes(res[2]) = CountableBytes

\* the tree with hidden, unreadable and denied entries has been summed from
\* its root: some files are counted, and their bytes are more than their number
C29_Witness ==
    /\ fn = "count_bytes"
    /\ fs = WalkImage
    /\ arg = RootC
    /\ res[1]
    /\ res[2] = CountableBytes
    /\ Cardinality(Countable) >= 3
    /\ res[2] > Cardinality(Countable)

\* ---------------------------------------------------------------------
\* navigation.recursive_path_explorer: the history of a yielded path
\* ---------------------------------------------------------------------
\* the number of folders between the start path and a path below it
DepthBelowStart(p) ==
    IF p = arg THEN 0
    ELSE Cardinality({i \in (Len(arg) + 1)..Len(p) : p[i] = Sep})
           + (IF arg[Len(arg)] = Sep THEN 1 ELSE 0)

\* C30: the history recursive_path_explorer yields with a path is the chain
\* of folders from the start path down to that path: it begins with the start
\* path, each element is an entry of the one before, it ends with the path
\* itself and its length is the depth of the path below the start plus one.
\* No folder of a sibling subtree is in it, so the length, which
\* navigate_with_history shows as history depth, is the nesting depth and
\* not the number of folders visited so far.
C30_HistoryIsAncestorChain ==
    tv_kind = "explore" =>
        \A k \in 1..Len(tv_out) :
            /\ tv_out[k].history # <<>>
            /\ tv_out[k].history[1] = arg
            /\ tv_out[k].history[Len(tv_out[k].history)] = tv_out[k].path
            /\ \A i \in 1..(Len(tv_out[k].history) - 1) :
                  /\ IsChildOf(tv_out[k].history[i + 1], tv_out[k].history[i])
                  /\ IsUnder(tv_out[k].path, tv_out[k].history[i])
            /\ Len(tv_out[k].history) = DepthBelowStart(tv_out[k].path) + 1
            /\ Len(tv_out[k].history) <= k

\* the exploration of the drive root has ended; the last folder yielded, the
\* sixth, has a history of two folders
C30_Witness ==
    /\ tv_kind = "explore"
    /\ tv_pc = "done"
    /\ arg = RootC
    /\ Len(tv_out) = 6
    /\ Len(tv_out[6].history) = 2
    /\ tv_out[6].history[1] = RootC
    /\ \E k \in 2..5 : Len(tv_out[k].history) = 3
====
